---- MODULE Spec2Model ----
(***************************************************************************)
(* Video-assembly pipeline of artisan_agent/sub_agents/artisan_video:      *)
(* process_videos_with_ffmpeg_mcp (agent.py) and the FFmpegMCP class       *)
(* (tools/ffmpeg_mcp.py).                                                  *)
(*                                                                         *)
(* Paths and URIs are sequences of tokens, so that startswith("gs://")     *)
(* and partition("/") are computed on them.  Times are in centiseconds     *)
(* (15.0 s = 1500), so that the 0.2 / 0.3 / 0.4 fade ratios are exact.     *)
(***************************************************************************)
EXTENDS Integers, Sequences, FiniteSets, TLC

\* ---------------------------------------------------------------- bounds
MaxVideos == 3

\* how many deletions may fail in one cleanup
MaxRemoveFailures == 1

\* ---------------------------------------------------------------- values
NoPath == <<>>

GsScheme == <<"g", "s", ":", "/", "/">>

LocalA == <<"/", "a">>

LocalB == <<"/", "b">>

LocalMissing == <<"/", "m">>

GsVideo == <<"g", "s", ":", "/", "/", "bkt", "/", "v">>

GsNoBlob == <<"g", "s", ":", "/", "/", "bkt">>

LocalNarr == <<"/", "n">>

GsNarr == <<"g", "s", ":", "/", "/", "bkt", "/", "n">>

LocalMusic == <<"/", "mu">>

GsMusic == <<"g", "s", ":", "/", "/", "bkt", "/", "mu">>

VideoChoices == {LocalA, LocalMissing, GsVideo, GsNoBlob}

NarrChoices == {NoPath, LocalNarr, LocalMissing, GsNarr}

MusicChoices == {NoPath, LocalMusic, LocalMissing, GsMusic}

PromptChoices == {<<>>, <<"S", "l", "o", "w", " ", "f", "a", "d", "e">>}

\* files present before any call: the caller's local media
InitialDisk == {LocalA, LocalB, LocalNarr, LocalMusic}

RECURSIVE SeqsUpTo(_, _)
SeqsUpTo(S, n) ==
    IF n = 0 THEN {<<>>}
    ELSE LET shorter == SeqsUpTo(S, n - 1)
         IN shorter \cup {Append(s, x) : s \in {t \in shorter : Len(t) = n - 1}, x \in S}

Min(a, b) == IF a <= b THEN a ELSE b

Max(a, b) == IF a >= b THEN a ELSE b

\* ------------------------------------------------------- string helpers
StartsWith(s, p) == Len(s) >= Len(p) /\ SubSeq(s, 1, Len(p)) = p

FirstIndex(s, c) ==
    IF \E k \in 1..Len(s) : s[k] = c
    THEN CHOOSE k \in 1..Len(s) : s[k] = c /\ \A j \in 1..(k - 1) : s[j] # c
    ELSE 0

\* str.partition(sep): <<head, sep, tail>>, or <<s, "", "">> without sep
Partition(s, c) ==
    LET k == FirstIndex(s, c)
    IN IF k = 0 THEN <<s, <<>>, <<>>>>
       ELSE <<SubSeq(s, 1, k - 1), <<c>>, SubSeq(s, k + 1, Len(s))>>

\* 'needle in haystack' on token sequences
Contains(hay, needle) ==
    \E k \in 0..(Len(hay) - Len(needle)) : SubSeq(hay, k + 1, k + Len(needle)) = needle

\* mutant: only the scheme is checked
GcsUriError_schemeOnly(gcs_uri) ==
    IF ~StartsWith(gcs_uri, GsScheme) THEN "ValueError" ELSE "none"

\* the two checks shared by upload_to_gcs and download_to_temp
GcsUriError(gcs_uri) ==
    IF ~StartsWith(gcs_uri, GsScheme) THEN "ValueError"
    ELSE LET without_scheme == SubSeq(gcs_uri, 6, Len(gcs_uri))
             parts == Partition(without_scheme, "/")
         IN IF parts[1] = <<>> \/ parts[3] = <<>> THEN "ValueError" ELSE "none"

\* ------------------------------------------------------ exception classes
ExcParent ==
    [ JSONDecodeError    |-> "ValueError",
      ValueError         |-> "Exception",
      KeyError           |-> "Exception",
      CalledProcessError |-> "Exception",
      RuntimeError       |-> "Exception",
      FileNotFoundError  |-> "OSError",
      PermissionError    |-> "OSError",
      OSError            |-> "Exception",
      NotFound           |-> "Exception",
      GoogleAPIError     |-> "Exception",
      UnboundLocalError  |-> "Exception",
      Exception          |-> "Exception" ]

RECURSIVE IsInstance(_, _)
IsInstance(exc, cls) ==
    IF exc = cls THEN TRUE
    ELSE IF exc = "Exception" THEN FALSE
    ELSE IsInstance(ExcParent[exc], cls)

\* ---------------------------------------------------------------- probe
DefaultAudioDuration == 3000

DefaultVideoDuration == 1500

\* what the inspection utility can do when ffprobe is run on a file
ProbeOutcomes ==
    {"ok", "nonzero_exit", "bad_json", "no_format", "not_a_number",
     "missing_utility", "not_executable"}

\* the exception each outcome raises inside the try block
ProbeException(outcome) ==
    CASE outcome = "ok"              -> "none"
      [] outcome = "nonzero_exit"    -> "CalledProcessError"
      [] outcome = "bad_json"        -> "JSONDecodeError"
      [] outcome = "no_format"       -> "KeyError"
      [] outcome = "not_a_number"    -> "ValueError"
      [] outcome = "missing_utility" -> "FileNotFoundError"
      [] outcome = "not_executable"  -> "PermissionError"

\* except (subprocess.CalledProcessError, KeyError, ValueError)
ProbeCatches(exc) ==
    \E cls \in {"CalledProcessError", "KeyError", "ValueError"} : IsInstance(exc, cls)

ProbeDuration(outcome, trueDuration, default) ==
    LET exc == ProbeException(outcome)
    IN IF exc = "none" THEN [raised |-> "none", value |-> trueDuration]
       ELSE IF ProbeCatches(exc) THEN [raised |-> "none", value |-> default]
       ELSE [raised |-> exc, value |-> 0]

get_audio_duration(outcome, trueDuration) ==
    ProbeDuration(outcome, trueDuration, DefaultAudioDuration)

get_video_duration(outcome, trueDuration) ==
    ProbeDuration(outcome, trueDuration, DefaultVideoDuration)


\* ------------------------------------------------------------ the state
VARIABLES
    pc,                  \* position of the running call
    caller,              \* which entry point the environment called
    returned,            \* the values process_videos_with_ffmpeg_mcp returned
    raised,              \* the exception that left the entry point ("none")
    retval,              \* the path a direct compositor / mixdown call returned
    probe_ret,           \* what a direct duration probe returned
    raised_text,         \* the message of the exception the tool wrapper let out
    faults,              \* history: the stages in which a failure happened
    events,              \* history: the external operations, in order
    video_uris, narration_path, music_path, volume_prompt,
    local_videos, temp_files, local_narr, local_music,
    concatenated_video, final_video_path, final_gcs_uri, idx, cleaned,
    disk,                \* the local files that exist
    created,             \* history: the files this call created
    removed,             \* history: the files this call deleted
    remove_failures,     \* history: how many deletions failed
    uploads,             \* the objects written to the blob store
    video_paths, current_video, ci, steps,
    s_video, s_music, s_voice, s_prompt,
    video_duration, true_video_duration, probes, output_path, mix,
    p_phrases,           \* the phrases of the directive given to the parser
    volumes,             \* the gains the parser returned
    store_uri,           \* the URI given to a direct upload / download
    store_local,         \* the local path given to a direct upload
    runs,                \* concurrent runs: the position and locals of each
    tmpdir,              \* concurrent runs: the temp files present, with the run that wrote each
    dests,               \* concurrent runs: the objects written to the store, in order
    conflicts,           \* history: a run touched a temp file that was another's
    operation,           \* video generation: the long-running operation as last fetched
    wait_time,           \* video generation: the seconds slept so far
    polls,               \* history: how many times the operation was fetched
    request,             \* POST /generate: the fields of the request
    app_wrapper,         \* POST /generate: whether the agent was loaded
    response,            \* POST /generate: the HTTP status and detail sent back
    agent_queries,       \* history: how many times the agent was queried
    stream_clock,        \* POST /generate: seconds since the iteration of the stream began
    stream_events,       \* POST /generate: the events taken from the stream so far
    stream_last,         \* history: what the stream did last ("event", "end", "raise")
    final_response       \* POST /generate: the last text an event carried

ctlVars == <<pc, caller, returned, raised, retval, probe_ret, raised_text, faults, events>>

inVars == <<video_uris, narration_path, music_path, volume_prompt>>

orchVars ==
    <<local_videos, temp_files, local_narr, local_music,
      concatenated_video, final_video_path, final_gcs_uri, idx, cleaned>>

worldVars == <<disk, created, removed, remove_failures, uploads>>

concatVars == <<video_paths, current_video, ci, steps>>

stitchVars ==
    <<s_video, s_music, s_voice, s_prompt,
      video_duration, true_video_duration, probes, output_path, mix>>

parseVars == <<p_phrases, volumes>>

\* the state of the entry points other than the processing pipeline
storeVars == <<store_uri, store_local>>

runVars == <<runs, tmpdir, dests, conflicts>>

pollVars == <<operation, wait_time, polls>>

streamVars == <<stream_clock, stream_events, stream_last, final_response>>

apiVars == <<request, app_wrapper, response, agent_queries, streamVars>>

otherVars == <<parseVars, storeVars, runVars, pollVars, apiVars>>

\* the state of the processing pipeline
pipeVars == <<inVars, orchVars, worldVars, concatVars, stitchVars>>

vars == <<ctlVars, pipeVars, otherVars>>

NoMix == [case |-> "none"]

NoOperation == [done |-> FALSE, generated_videos |-> FALSE]

NoRequest == [user_id |-> <<>>, product_description |-> <<>>, gcs_image_uri |-> <<>>]

NoResponse == [status_code |-> 0, detail |-> ""]

\* the runs of process_videos_with_ffmpeg_mcp that go on at the same time
Runs == {1, 2}

IdleRun ==
    [ pc |-> "idle", n |-> 0, remote |-> FALSE, audio |-> FALSE, i |-> 0,
      pending |-> NoPath, current |-> NoPath, temp_files |-> <<>> ]

Init ==
    /\ pc = "idle"
    /\ caller = "none"
    /\ returned = <<>>
    /\ raised = "none"
    /\ retval = NoPath
    /\ probe_ret = [raised |-> "none", value |-> 0]
    /\ raised_text = <<>>
    /\ faults = {}
    /\ events = <<>>
    /\ video_uris = <<>>
    /\ narration_path = NoPath
    /\ music_path = NoPath
    /\ volume_prompt = <<>>
    /\ local_videos = <<>>
    /\ temp_files = <<>>
    /\ local_narr = NoPath
    /\ local_music = NoPath
    /\ concatenated_video = NoPath
    /\ final_video_path = NoPath
    /\ final_gcs_uri = NoPath
    /\ idx = 0
    /\ cleaned = 0
    /\ disk = InitialDisk
    /\ created = {}
    /\ removed = {}
    /\ remove_failures = 0
    /\ uploads = <<>>
    /\ video_paths = <<>>
    /\ current_video = NoPath
    /\ ci = 0
    /\ steps = <<>>
    /\ s_video = NoPath
    /\ s_music = NoPath
    /\ s_voice = NoPath
    /\ s_prompt = <<>>
    /\ video_duration = 0
    /\ true_video_duration = 0
    /\ probes = <<>>
    /\ output_path = NoPath
    /\ mix = NoMix
    /\ p_phrases = <<>>
    /\ volumes = <<>>
    /\ store_uri = NoPath
    /\ store_local = NoPath
    /\ runs = [r \in Runs |-> IdleRun]
    /\ tmpdir = {}
    /\ dests = <<>>
    /\ conflicts = {}
    /\ operation = NoOperation
    /\ wait_time = 0
    /\ polls = 0
    /\ request = NoRequest
    /\ app_wrapper = TRUE
    /\ response = NoResponse
    /\ agent_queries = 0
    /\ stream_clock = 0
    /\ stream_events = 0
    /\ stream_last = "none"
    /\ final_response = "none"

\* ------------------------------------------------------ temporary names
\* tempfile.mkstemp() / tempfile.mktemp(suffix): a name that no existing file has.
\* The names are random; the first free one stands for them (the calls of
\* one run are sequential and never look at the name).
TempPath(k, suffix) == <<"/", "tmp", ToString(k)>> \o suffix

FreshTemp(d, suffix) ==
    LET k == CHOOSE n \in 1..(Cardinality(d) + 1) :
                 /\ TempPath(n, suffix) \notin d
                 /\ \A j \in 1..(n - 1) : TempPath(j, suffix) \in d
    IN TempPath(k, suffix)

\* ------------------------------------------------- results and control
ErrorResult(detail) == [status |-> "error", detail |-> detail]

SuccessResult(path, uri) ==
    [ status     |-> "success",
      detail     |-> <<"Video processing completed successfully at">> \o uri,
      video_path |-> path,
      video_uri  |-> uri ]

\* mutant: the handler names two exception classes instead of Exception
OrchestratorCatches_narrow(exc) ==
    IsInstance(exc, "RuntimeError") \/ IsInstance(exc, "ValueError")

\* except Exception as e  (the handler around the body of the orchestrator)
OrchestratorCatches(exc) == IsInstance(exc, "Exception")

\* an exception raised at the current position
Throw(exc) ==
    /\ pc' = "done"
    /\ IF caller = "pipeline" /\ OrchestratorCatches(exc)
       THEN /\ returned' = Append(returned, ErrorResult(<<"Video processing failed", exc>>))
            /\ raised' = raised
       ELSE /\ returned' = returned
            /\ raised' = exc

Goto(label) ==
    /\ pc' = label
    /\ UNCHANGED <<returned, raised>>

ReturnResult(r) ==
    /\ pc' = "done"
    /\ returned' = Append(returned, r)
    /\ raised' = raised

\* mutant: the cleanup loop placed before the upload
StageAfter_cleanupFirst(stage) ==
    CASE stage = "resolve_videos" -> "resolve_narr"
      [] stage = "resolve_narr"   -> "resolve_music"
      [] stage = "resolve_music"  -> "compose"
      [] stage = "compose"        -> "mixdown"
      [] stage = "mixdown"        -> "cleanup"
      [] stage = "upload"         -> "cleanup"

\* the order of the stages in the body of the orchestrator
StageAfter(stage) ==
    CASE stage = "resolve_videos" -> "resolve_narr"
      [] stage = "resolve_narr"   -> "resolve_music"
      [] stage = "resolve_music"  -> "compose"
      [] stage = "compose"        -> "mixdown"
      [] stage = "mixdown"        -> "upload"
      [] stage = "upload"         -> "cleanup"

\* ------------------------------------------------------ media store
download_to_temp(gcs_uri, d) ==
    IF GcsUriError(gcs_uri) # "none"
    THEN {[raised |-> GcsUriError(gcs_uri), file |-> NoPath, value |-> NoPath]}
    ELSE LET tmp_path == FreshTemp(d, <<>>)
         IN { [raised |-> "none", file |-> tmp_path, value |-> tmp_path],
              [raised |-> "NotFound", file |-> tmp_path, value |-> NoPath] }

\* mutant: the object name is returned instead of the URI
upload_to_gcs_blob(local_path, gcs_uri, d) ==
    IF GcsUriError(gcs_uri) # "none"
    THEN {[raised |-> GcsUriError(gcs_uri), wrote |-> FALSE, value |-> NoPath]}
    ELSE IF local_path \notin d
    THEN {[raised |-> "FileNotFoundError", wrote |-> FALSE, value |-> NoPath]}
    ELSE { [raised |-> "none", wrote |-> TRUE,
            value |-> Partition(SubSeq(gcs_uri, 6, Len(gcs_uri)), "/")[3]],
           [raised |-> "GoogleAPIError", wrote |-> FALSE, value |-> NoPath] }

upload_to_gcs(local_path, gcs_uri, d) ==
    IF GcsUriError(gcs_uri) # "none"
    THEN {[raised |-> GcsUriError(gcs_uri), wrote |-> FALSE, value |-> NoPath]}
    ELSE IF local_path \notin d
    THEN {[raised |-> "FileNotFoundError", wrote |-> FALSE, value |-> NoPath]}
    ELSE { [raised |-> "none", wrote |-> TRUE, value |-> gcs_uri],
           [raised |-> "GoogleAPIError", wrote |-> FALSE, value |-> NoPath] }

\* mutant: a local input is passed on without the existence check
ResolveInput_unchecked(uri, d) ==
    IF StartsWith(uri, GsScheme)
    THEN { [ kind |-> IF o.raised # "none" THEN "raise" ELSE "ok",
             exc  |-> o.raised, file |-> o.file, path |-> o.value, temp |-> TRUE ]
           : o \in download_to_temp(uri, d) }
    ELSE { [ kind |-> "ok", exc |-> "none", file |-> NoPath, path |-> uri, temp |-> FALSE ] }

\* one input of RESOLVE_INPUTS: download when remote, then os.path.exists
ResolveInput(uri, d) ==
    IF StartsWith(uri, GsScheme)
    THEN { [ kind |-> IF o.raised # "none" THEN "raise"
                      ELSE IF o.value \in (d \cup {o.file}) THEN "ok" ELSE "missing",
             exc  |-> o.raised, file |-> o.file, path |-> o.value, temp |-> TRUE ]
           : o \in download_to_temp(uri, d) }
    ELSE { [ kind |-> IF uri \in d THEN "ok" ELSE "missing",
             exc  |-> "none", file |-> NoPath, path |-> uri, temp |-> FALSE ] }

FilesOf(o) == IF o.file = NoPath THEN {} ELSE {o.file}


\* the operations a resolved input adds to the history
ResolveEvents(o) ==
    (IF o.file # NoPath THEN <<"download">> ELSE <<>>)
        \o (IF o.kind # "raise" THEN <<"exists">> ELSE <<>>)

\* ------------------------------------------------ orchestrator: RESOLVE
CallPipeline ==
    /\ pc = "idle"
    /\ \E vs \in SeqsUpTo(VideoChoices, MaxVideos), n \in NarrChoices,
          m \in MusicChoices, p \in PromptChoices :
        /\ video_uris' = vs
        /\ narration_path' = n
        /\ music_path' = m
        /\ volume_prompt' = p
        /\ IF vs = <<>>
           THEN ReturnResult(ErrorResult(<<"No video URIs provided">>))
           ELSE Goto("resolve_videos")
    /\ caller' = "pipeline"
    /\ idx' = 1
    /\ UNCHANGED <<retval, probe_ret, raised_text, faults, events>>
    /\ UNCHANGED <<local_videos, temp_files, local_narr, local_music,
                   concatenated_video, final_video_path, final_gcs_uri, cleaned>>
    /\ UNCHANGED <<worldVars, concatVars, stitchVars, otherVars>>

ResolveVideo ==
    /\ pc = "resolve_videos"
    /\ \E o \in ResolveInput(video_uris[idx], disk) :
        /\ disk' = disk \cup FilesOf(o)
        /\ created' = created \cup FilesOf(o)
        /\ events' = events \o ResolveEvents(o)
        /\ CASE o.kind = "raise" ->
                    /\ Throw(o.exc)
                    /\ faults' = faults \cup {"download"}
                    /\ UNCHANGED <<local_videos, temp_files, idx>>
             [] o.kind = "missing" ->
                    /\ ReturnResult(ErrorResult(<<"Video file not found">> \o o.path))
                    /\ faults' = faults \cup {"exists"}
                    /\ temp_files' = IF o.temp THEN Append(temp_files, o.path) ELSE temp_files
                    /\ UNCHANGED <<local_videos, idx>>
             [] o.kind = "ok" ->
                    /\ local_videos' = Append(local_videos, o.path)
                    /\ temp_files' = IF o.temp THEN Append(temp_files, o.path) ELSE temp_files
                    /\ idx' = idx + 1
                    /\ faults' = faults
                    /\ Goto(IF idx = Len(video_uris)
                            THEN StageAfter("resolve_videos") ELSE "resolve_videos")
    /\ UNCHANGED <<caller, retval, probe_ret, raised_text, inVars, otherVars, removed, remove_failures, uploads>>
    /\ UNCHANGED <<local_narr, local_music, concatenated_video, final_video_path, final_gcs_uri, cleaned>>
    /\ UNCHANGED <<concatVars, stitchVars>>

ResolveNarration ==
    /\ pc = "resolve_narr"
    /\ IF narration_path = NoPath
       THEN /\ Goto(StageAfter("resolve_narr"))
            /\ UNCHANGED <<local_narr, temp_files, disk, created, events, faults>>
       ELSE \E o \in ResolveInput(narration_path, disk) :
            /\ disk' = disk \cup FilesOf(o)
            /\ created' = created \cup FilesOf(o)
            /\ events' = events \o ResolveEvents(o)
            /\ CASE o.kind = "raise" ->
                        /\ Throw(o.exc)
                        /\ faults' = faults \cup {"download"}
                        /\ UNCHANGED <<local_narr, temp_files>>
                 [] o.kind = "missing" ->
                        /\ ReturnResult(ErrorResult(<<"Narration file not found">> \o o.path))
                        /\ faults' = faults \cup {"exists"}
                        /\ local_narr' = o.path
                        /\ temp_files' = IF o.temp THEN Append(temp_files, o.path) ELSE temp_files
                 [] o.kind = "ok" ->
                        /\ local_narr' = o.path
                        /\ temp_files' = IF o.temp THEN Append(temp_files, o.path) ELSE temp_files
                        /\ faults' = faults
                        /\ Goto(StageAfter("resolve_narr"))
    /\ UNCHANGED <<caller, retval, probe_ret, raised_text, inVars, otherVars, removed, remove_failures, uploads>>
    /\ UNCHANGED <<local_videos, local_music, concatenated_video, final_video_path,
                   final_gcs_uri, idx, cleaned>>
    /\ UNCHANGED <<concatVars, stitchVars>>

ResolveMusic ==
    /\ pc = "resolve_music"
    /\ IF music_path = NoPath
       THEN /\ Goto(StageAfter("resolve_music"))
            /\ UNCHANGED <<local_music, temp_files, disk, created, events, faults>>
       ELSE \E o \in ResolveInput(music_path, disk) :
            /\ disk' = disk \cup FilesOf(o)
            /\ created' = created \cup FilesOf(o)
            /\ events' = events \o ResolveEvents(o)
            /\ CASE o.kind = "raise" ->
                        /\ Throw(o.exc)
                        /\ faults' = faults \cup {"download"}
                        /\ UNCHANGED <<local_music, temp_files>>
                 [] o.kind = "missing" ->
                        /\ ReturnResult(ErrorResult(<<"Music file not found">> \o o.path))
                        /\ faults' = faults \cup {"exists"}
                        /\ local_music' = o.path
                        /\ temp_files' = IF o.temp THEN Append(temp_files, o.path) ELSE temp_files
                 [] o.kind = "ok" ->
                        /\ local_music' = o.path
                        /\ temp_files' = IF o.temp THEN Append(temp_files, o.path) ELSE temp_files
                        /\ faults' = faults
                        /\ Goto(StageAfter("resolve_music"))
    /\ UNCHANGED <<caller, retval, probe_ret, raised_text, inVars, otherVars, removed, remove_failures, uploads>>
    /\ UNCHANGED <<local_videos, local_narr, concatenated_video, final_video_path,
                   final_gcs_uri, idx, cleaned>>
    /\ UNCHANGED <<concatVars, stitchVars>>


\* ------------------------------------------------------ external tool
ToolOutcomes == {"ok", "nonzero_exit", "missing_tool"}

ToolException(outcome) ==
    CASE outcome = "ok"           -> "none"
      [] outcome = "nonzero_exit" -> "CalledProcessError"
      [] outcome = "missing_tool" -> "FileNotFoundError"

\* except subprocess.CalledProcessError ... raise RuntimeError(...)
run_ffmpeg_command(outcome) ==
    LET exc == ToolException(outcome)
    IN IF exc = "none" THEN "none"
       ELSE IF IsInstance(exc, "CalledProcessError") THEN "RuntimeError"
       ELSE exc

\* what the failed tool left on its error stream: nothing, or a diagnostic
StderrChoices == {<<>>, <<"stderr">>}

\* error_detail = e.stderr.decode(errors='ignore') if e.stderr else str(e)
ErrorDetail(stderr) ==
    IF stderr # <<>> THEN stderr ELSE <<"returned non-zero exit status">>

\* the message of the exception run_ffmpeg_command lets out:
\* RuntimeError(f"{error_msg}: {error_detail}") for a non-zero exit; a tool
\* that cannot be started raises the OSError of subprocess.run unchanged
ErrorText(outcome, error_msg, stderr) ==
    CASE outcome = "ok"           -> <<>>
      [] outcome = "nonzero_exit" -> error_msg \o <<": ">> \o ErrorDetail(stderr)
      [] outcome = "missing_tool" -> <<"[Errno 2] No such file or directory: 'ffmpeg'">>

\* error_msg=f"Failed to apply transition {i}"
TransitionErrorMsg(i) == <<"Failed to apply transition ", ToString(i)>>

\* error_msg="Failed to stitch video with audio"
StitchErrorMsg == <<"Failed to stitch video with audio">>

\* the files the tool can leave at its output path: all of it, a part, or none
ToolWrites(outcome, path) ==
    CASE outcome = "ok"           -> {{path}}
      [] outcome = "nonzero_exit" -> {{}, {path}}
      [] outcome = "missing_tool" -> {{}}

\* ------------------------------------------------- transition compositor
\* mutant: fewer than two videos is an error, as the docstring has it
ConcatGuard_needsTwo(paths) == IF Len(paths) < 2 THEN "raise" ELSE "fold"

\* what the guard at the head of concatenate_videos_with_transition decides
ConcatGuard(paths) ==
    IF Len(paths) < 2
    THEN IF Len(paths) = 1 THEN "return_input" ELSE "raise"
    ELSE "fold"

\* the two inputs of fold step i (-i current_video -i video_paths[i], 0-based)
\* mutant: each step joins two neighbours instead of the accumulated file
FoldFirstInput_pairwise(paths, current, i) == paths[i]

FoldFirstInput(paths, current, i) == current

FoldSecondInput(paths, i) == paths[i + 1]

TransitionSuffix(i) == <<"_transition_", ToString(i), ".mp4">>

\* return of the compositor to whoever called it
ConcatReturns(path) ==
    IF caller = "pipeline"
    THEN /\ concatenated_video' = path
         /\ temp_files' = Append(temp_files, path)
         /\ retval' = retval
         /\ Goto(StageAfter("compose"))
    ELSE /\ retval' = path
         /\ Goto("done")
         /\ UNCHANGED <<concatenated_video, temp_files>>

\* mutant: the compositor is called for a single video too
ComposeNeeded_always(videos) == Len(videos) >= 1

\* if len(local_videos) > 1
ComposeNeeded(videos) == Len(videos) > 1

Compose ==
    /\ pc = "compose"
    /\ IF ComposeNeeded(local_videos)
       THEN /\ video_paths' = local_videos
            /\ Goto("concat_entry")
            /\ UNCHANGED concatenated_video
       ELSE /\ concatenated_video' = local_videos[1]
            /\ Goto(StageAfter("compose"))
            /\ UNCHANGED video_paths
    /\ UNCHANGED <<caller, retval, probe_ret, raised_text, faults, events, inVars, otherVars, worldVars>>
    /\ UNCHANGED <<local_videos, temp_files, local_narr, local_music,
                   final_video_path, final_gcs_uri, idx, cleaned>>
    /\ UNCHANGED <<current_video, ci, steps, stitchVars>>

CallConcat ==
    /\ pc = "idle"
    /\ \E vs \in SeqsUpTo({LocalA, LocalB}, MaxVideos) : video_paths' = vs
    /\ caller' = "concat"
    /\ Goto("concat_entry")
    /\ UNCHANGED <<retval, probe_ret, raised_text, faults, events, inVars, otherVars, orchVars, worldVars>>
    /\ UNCHANGED <<current_video, ci, steps, stitchVars>>

ConcatEntry ==
    /\ pc = "concat_entry"
    /\ CASE ConcatGuard(video_paths) = "return_input" ->
                /\ ConcatReturns(video_paths[1])
                /\ UNCHANGED <<current_video, ci>>
         [] ConcatGuard(video_paths) = "raise" ->
                /\ Throw("ValueError")
                /\ UNCHANGED <<current_video, ci, retval, concatenated_video, temp_files>>
         [] ConcatGuard(video_paths) = "fold" ->
                /\ current_video' = video_paths[1]
                /\ ci' = 1
                /\ Goto("concat_loop")
                /\ UNCHANGED <<retval, concatenated_video, temp_files>>
    /\ UNCHANGED <<caller, probe_ret, raised_text, faults, events, inVars, otherVars, worldVars>>
    /\ UNCHANGED <<local_videos, local_narr, local_music, final_video_path, final_gcs_uri, idx, cleaned>>
    /\ UNCHANGED <<video_paths, steps, stitchVars>>

\* one iteration of 'for i in range(1, len(video_paths))'
ConcatStep ==
    /\ pc = "concat_loop"
    /\ ci <= Len(video_paths) - 1
    /\ LET out == FreshTemp(disk, TransitionSuffix(ci))
       IN \E outcome \in ToolOutcomes : \E written \in ToolWrites(outcome, out) :
            /\ disk' = disk \cup written
            /\ created' = created \cup written
            /\ events' = Append(events, "fold")
            /\ steps' = Append(steps,
                   [ first  |-> FoldFirstInput(video_paths, current_video, ci),
                     second |-> FoldSecondInput(video_paths, ci),
                     out    |-> out,
                     ok     |-> outcome = "ok" ])
            /\ IF run_ffmpeg_command(outcome) = "none"
               THEN /\ current_video' = out
                    /\ ci' = ci + 1
                    /\ faults' = faults
                    /\ Goto("concat_loop")
               ELSE /\ Throw(run_ffmpeg_command(outcome))
                    /\ faults' = faults \cup {"compose"}
                    /\ UNCHANGED <<current_video, ci>>
            /\ \E stderr \in IF outcome = "nonzero_exit" THEN StderrChoices ELSE {<<>>} :
                 raised_text' = ErrorText(outcome, TransitionErrorMsg(ci), stderr)
    /\ UNCHANGED <<caller, retval, probe_ret, inVars, otherVars, orchVars, removed, remove_failures, uploads>>
    /\ UNCHANGED <<video_paths, stitchVars>>

ConcatReturn ==
    /\ pc = "concat_loop"
    /\ ci > Len(video_paths) - 1
    /\ ConcatReturns(current_video)
    /\ UNCHANGED <<caller, probe_ret, raised_text, faults, events, inVars, otherVars, worldVars>>
    /\ UNCHANGED <<local_videos, local_narr, local_music, final_video_path, final_gcs_uri, idx, cleaned>>
    /\ UNCHANGED <<concatVars, stitchVars>>


\* ------------------------------------------------------ volume directive
\* A directive is the sequence of its characters; gains are in thousandths.
MaxPhrases == 2

UpperChars == <<"A", "B", "C", "D", "E", "F", "G", "H", "I", "J", "K", "L", "M", "N", "O", "P", "Q", "R", "S", "T", "U", "V", "W", "X", "Y", "Z">>

LowerChars == <<"a", "b", "c", "d", "e", "f", "g", "h", "i", "j", "k", "l", "m", "n", "o", "p", "q", "r", "s", "t", "u", "v", "w", "x", "y", "z">>

Digits == <<"0", "1", "2", "3", "4", "5", "6", "7", "8", "9">>

\* str.lower(), one character
LowerChar(c) ==
    IF \E i \in 1..Len(UpperChars) : UpperChars[i] = c
    THEN LowerChars[CHOOSE i \in 1..Len(UpperChars) : UpperChars[i] = c]
    ELSE c

\* prompt.lower()
Lower(s) == [k \in 1..Len(s) |-> LowerChar(s[k])]

IsDigit(c) == \E i \in 1..Len(Digits) : Digits[i] = c

DigitValue(c) == (CHOOSE i \in 1..Len(Digits) : Digits[i] = c) - 1

\* int() of a run of digits (0 for the empty run)
RECURSIVE DigitsValue(_)
DigitsValue(ds) ==
    IF ds = <<>> THEN 0
    ELSE DigitsValue(SubSeq(ds, 1, Len(ds) - 1)) * 10 + DigitValue(ds[Len(ds)])

\* position of the first occurrence of needle in hay, 0 if there is none
IndexOf(hay, needle) ==
    LET hits == {k \in 1..(Len(hay) - Len(needle) + 1) :
                    SubSeq(hay, k, k + Len(needle) - 1) = needle}
    IN IF hits = {} THEN 0 ELSE CHOOSE k \in hits : \A j \in hits : k <= j

\* end of the longest run of digits that starts at j (j - 1 if s[j] is no digit)
RunEnd(s, j) ==
    LET ends == {k \in (j - 1)..Len(s) : \A i \in j..k : IsDigit(s[i])}
    IN CHOOSE k \in ends : \A e \in ends : e <= k

NoMatch == [matched |-> FALSE]

\* re.search(name + r'.*?(\d+)%', s): the match starts at the first occurrence
\* of the name; '.*?' stops before the first run of digits that '%' follows
PercentSearch(s, name) ==
    LET p == IndexOf(s, name)
        from == p + Len(name)
        starts == {j \in from..Len(s) :
                     /\ IsDigit(s[j])
                     /\ RunEnd(s, j) < Len(s)
                     /\ s[RunEnd(s, j) + 1] = "%"}
    IN IF p = 0 \/ starts = {} THEN NoMatch
       ELSE LET j == CHOOSE a \in starts : \A b \in starts : a <= b
            IN [matched |-> TRUE, digits |-> SubSeq(s, j, RunEnd(s, j))]

\* re.search(name + r'.*?(\d*\.\d+)', s): the first place after the name where
\* digits (possibly none), a point and at least one digit stand together
DecimalSearch(s, name) ==
    LET p == IndexOf(s, name)
        from == p + Len(name)
        starts == {j \in from..Len(s) :
                     LET e == RunEnd(s, j)
                     IN /\ e + 2 <= Len(s)
                        /\ s[e + 1] = "."
                        /\ IsDigit(s[e + 2])}
    IN IF p = 0 \/ starts = {} THEN NoMatch
       ELSE LET j == CHOOSE a \in starts : \A b \in starts : a <= b
                e == RunEnd(s, j)
            IN [matched |-> TRUE,
                whole   |-> SubSeq(s, j, e),
                frac    |-> SubSeq(s, e + 2, RunEnd(s, e + 2))]

\* float(N) / 100, in thousandths
PercentGain(m) == DigitsValue(m.digits) * 10

\* float("W.F"), in thousandths (fractions of up to three digits are exact)
DecimalGain(m) ==
    LET f == SubSeq(m.frac, 1, Min(3, Len(m.frac)))
        scale == CASE Len(f) = 1 -> 100 [] Len(f) = 2 -> 10 [] OTHER -> 1
    IN DigitsValue(m.whole) * 1000 + DigitsValue(f) * scale

\* volumes = {'video': 0.3, 'music': 0.4, 'voiceover': 1.0}
DefaultVolumes_quietMusic == [video |-> 300, music |-> 200, voiceover |-> 1000]

DefaultVolumes == [video |-> 300, music |-> 400, voiceover |-> 1000]

\* mutant: the quiet category of the music chain tested before the loud one
MusicRules_quietFirst ==
    << [ phrases |-> {<<"q", "u", "i", "e", "t", " ", "m", "u", "s", "i", "c">>,
                       <<"s", "o", "f", "t", " ", "m", "u", "s", "i", "c">>,
                       <<"l", "o", "w", " ", "m", "u", "s", "i", "c">>},
         gain    |-> 200 ],
       [ phrases |-> {<<"l", "o", "u", "d", " ", "m", "u", "s", "i", "c">>,
                       <<"h", "i", "g", "h", " ", "m", "u", "s", "i", "c">>},
         gain    |-> 600 ],
       [ phrases |-> {<<"m", "e", "d", "i", "u", "m", " ", "m", "u", "s", "i", "c">>,
                       <<"m", "o", "d", "e", "r", "a", "t", "e", " ", "m", "u", "s", "i", "c">>},
         gain    |-> 400 ],
       [ phrases |-> {<<"n", "o", " ", "m", "u", "s", "i", "c">>,
                       <<"m", "u", "t", "e", " ", "m", "u", "s", "i", "c">>},
         gain    |-> 0 ] >>

\* the if/elif chains, one category per branch, in the order of the source
MusicRules ==
    << [ phrases |-> {<<"l", "o", "u", "d", " ", "m", "u", "s", "i", "c">>,
                       <<"h", "i", "g", "h", " ", "m", "u", "s", "i", "c">>},
         gain    |-> 600 ],
       [ phrases |-> {<<"q", "u", "i", "e", "t", " ", "m", "u", "s", "i", "c">>,
                       <<"s", "o", "f", "t", " ", "m", "u", "s", "i", "c">>,
                       <<"l", "o", "w", " ", "m", "u", "s", "i", "c">>},
         gain    |-> 200 ],
       [ phrases |-> {<<"m", "e", "d", "i", "u", "m", " ", "m", "u", "s", "i", "c">>,
                       <<"m", "o", "d", "e", "r", "a", "t", "e", " ", "m", "u", "s", "i", "c">>},
         gain    |-> 400 ],
       [ phrases |-> {<<"n", "o", " ", "m", "u", "s", "i", "c">>,
                       <<"m", "u", "t", "e", " ", "m", "u", "s", "i", "c">>},
         gain    |-> 0 ] >>

VoiceRules ==
    << [ phrases |-> {<<"l", "o", "u", "d", " ", "v", "o", "i", "c", "e">>,
                       <<"c", "l", "e", "a", "r", " ", "v", "o", "i", "c", "e">>,
                       <<"p", "r", "o", "m", "i", "n", "e", "n", "t", " ", "v", "o", "i", "c", "e">>},
         gain    |-> 1200 ],
       [ phrases |-> {<<"q", "u", "i", "e", "t", " ", "v", "o", "i", "c", "e">>,
                       <<"s", "o", "f", "t", " ", "v", "o", "i", "c", "e">>,
                       <<"l", "o", "w", " ", "v", "o", "i", "c", "e">>},
         gain    |-> 700 ],
       [ phrases |-> {<<"m", "e", "d", "i", "u", "m", " ", "v", "o", "i", "c", "e">>,
                       <<"m", "o", "d", "e", "r", "a", "t", "e", " ", "v", "o", "i", "c", "e">>},
         gain    |-> 1000 ],
       [ phrases |-> {<<"n", "o", " ", "v", "o", "i", "c", "e">>,
                       <<"m", "u", "t", "e", " ", "v", "o", "i", "c", "e">>},
         gain    |-> 0 ] >>

VideoRules ==
    << [ phrases |-> {<<"l", "o", "u", "d", " ", "v", "i", "d", "e", "o">>,
                       <<"k", "e", "e", "p", " ", "v", "i", "d", "e", "o", " ", "a", "u", "d", "i", "o">>},
         gain    |-> 800 ],
       [ phrases |-> {<<"q", "u", "i", "e", "t", " ", "v", "i", "d", "e", "o">>,
                       <<"m", "u", "t", "e", " ", "v", "i", "d", "e", "o">>,
                       <<"n", "o", " ", "v", "i", "d", "e", "o", " ", "a", "u", "d", "i", "o">>},
         gain    |-> 0 ],
       [ phrases |-> {<<"m", "e", "d", "i", "u", "m", " ", "v", "i", "d", "e", "o">>},
         gain    |-> 500 ] >>

\* if ... elif ...: the gain of the first branch one of whose phrases the
\* directive contains, the value already there if none does
KeywordGain(rules, prompt_lower, current) ==
    LET hits == {i \in 1..Len(rules) :
                    \E ph \in rules[i].phrases : Contains(prompt_lower, ph)}
    IN IF hits = {} THEN current
       ELSE rules[CHOOSE i \in hits : \A j \in hits : i <= j].gain

\* mutant: the percentage assignments placed after the decimal ones
NumericOverride_percentLast(current, pct, dec) ==
    LET after_dec == IF dec.matched THEN DecimalGain(dec) ELSE current
    IN IF pct.matched THEN PercentGain(pct) ELSE after_dec

\* the two assignments in the order of the source: percentage, then decimal
NumericOverride(current, pct, dec) ==
    LET after_pct == IF pct.matched THEN PercentGain(pct) ELSE current
    IN IF dec.matched THEN DecimalGain(dec) ELSE after_pct

ChannelName(channel) ==
    CASE channel = "music"     -> <<"m", "u", "s", "i", "c">>
      [] channel = "voiceover" -> <<"v", "o", "i", "c", "e">>
      [] channel = "video"     -> <<"v", "i", "d", "e", "o">>

ChannelRules(channel) ==
    CASE channel = "music"     -> MusicRules
      [] channel = "voiceover" -> VoiceRules
      [] channel = "video"     -> VideoRules

Channels == {"video", "music", "voiceover"}

parse_volume_from_prompt(prompt) ==
    LET prompt_lower == Lower(prompt)
    IN [c \in Channels |->
          NumericOverride(
              KeywordGain(ChannelRules(c), prompt_lower, DefaultVolumes[c]),
              PercentSearch(prompt_lower, ChannelName(c)),
              DecimalSearch(prompt_lower, ChannelName(c)))]

\* the phrases the directives of the model are put together from: the text,
\* the channel it names, whether it is a keyword (with the rank of its branch),
\* a percentage or a decimal, and the gain it asks for
Phrases ==
    << [ text |-> <<"L", "o", "u", "d", " ", "M", "u", "s", "i", "c">>,
         channel |-> "music", kind |-> "kw", rank |-> 1, gain |-> 600 ],
       [ text |-> <<"s", "o", "f", "t", " ", "m", "u", "s", "i", "c">>,
         channel |-> "music", kind |-> "kw", rank |-> 2, gain |-> 200 ],
       [ text |-> <<"m", "e", "d", "i", "u", "m", " ", "m", "u", "s", "i", "c">>,
         channel |-> "music", kind |-> "kw", rank |-> 3, gain |-> 400 ],
       [ text |-> <<"n", "o", " ", "m", "u", "s", "i", "c">>,
         channel |-> "music", kind |-> "kw", rank |-> 4, gain |-> 0 ],
       [ text |-> <<"c", "l", "e", "a", "r", " ", "v", "o", "i", "c", "e">>,
         channel |-> "voiceover", kind |-> "kw", rank |-> 1, gain |-> 1200 ],
       [ text |-> <<"q", "u", "i", "e", "t", " ", "v", "o", "i", "c", "e">>,
         channel |-> "voiceover", kind |-> "kw", rank |-> 2, gain |-> 700 ],
       [ text |-> <<"m", "u", "t", "e", " ", "v", "o", "i", "c", "e">>,
         channel |-> "voiceover", kind |-> "kw", rank |-> 4, gain |-> 0 ],
       [ text |-> <<"k", "e", "e", "p", " ", "v", "i", "d", "e", "o", " ", "a", "u", "d", "i", "o">>,
         channel |-> "video", kind |-> "kw", rank |-> 1, gain |-> 800 ],
       [ text |-> <<"m", "u", "t", "e", " ", "v", "i", "d", "e", "o">>,
         channel |-> "video", kind |-> "kw", rank |-> 2, gain |-> 0 ],
       [ text |-> <<"m", "e", "d", "i", "u", "m", " ", "v", "i", "d", "e", "o">>,
         channel |-> "video", kind |-> "kw", rank |-> 3, gain |-> 500 ],
       [ text |-> <<"m", "u", "s", "i", "c", " ", "a", "t", " ", "2", "5", "%">>,
         channel |-> "music", kind |-> "pct", rank |-> 0, gain |-> 250 ],
       [ text |-> <<"m", "u", "s", "i", "c", " ", "0", ".", "5">>,
         channel |-> "music", kind |-> "dec", rank |-> 0, gain |-> 500 ],
       [ text |-> <<"v", "o", "i", "c", "e", " ", "a", "t", " ", "8", "0", "%">>,
         channel |-> "voiceover", kind |-> "pct", rank |-> 0, gain |-> 800 ],
       [ text |-> <<"v", "o", "i", "c", "e", " ", "0", ".", "9">>,
         channel |-> "voiceover", kind |-> "dec", rank |-> 0, gain |-> 900 ],
       [ text |-> <<"m", "a", "k", "e", " ", "i", "t", " ", "n", "i", "c", "e">>,
         channel |-> "none", kind |-> "none", rank |-> 0, gain |-> 0 ] >>

Separator == <<",", " ">>

\* the directive made of the phrases with the given numbers, comma-separated
RECURSIVE Directive(_)
Directive(ps) ==
    IF ps = <<>> THEN <<>>
    ELSE IF Len(ps) = 1 THEN Phrases[ps[1]].text
    ELSE Phrases[ps[1]].text \o Separator \o Directive(Tail(ps))

DirectiveChoices == SeqsUpTo(1..Len(Phrases), MaxPhrases)

\* ------------------------------------------------------ audio mixdown
VideoDurations == {800, 2000}

AudioDurations == {100, 4000}

\* mutant: the early return is missing
StitchGuard_off(music, voice) == FALSE

\* if not background_music_path and not voiceover_path: return video_path
StitchGuard(music, voice) == music = NoPath /\ voice = NoPath

StitchSuffix == <<"_stitched.mp4">>

\* the fade cap (centiseconds) and ratio (tenths) the directive selects
FadeRule(prompt) ==
    IF \/ Contains(Lower(prompt), <<"d", "r", "a", "m", "a", "t", "i", "c", " ", "f", "a", "d", "e">>)
       \/ Contains(Lower(prompt), <<"l", "o", "n", "g", " ", "f", "a", "d", "e">>)
       \/ Contains(Lower(prompt), <<"s", "l", "o", "w", " ", "f", "a", "d", "e">>)
    THEN [cap |-> 800, ratio |-> 4]
    ELSE IF \/ Contains(Lower(prompt), <<"q", "u", "i", "c", "k", " ", "f", "a", "d", "e">>)
            \/ Contains(Lower(prompt), <<"f", "a", "s", "t", " ", "f", "a", "d", "e">>)
    THEN [cap |-> 200, ratio |-> 2]
    ELSE [cap |-> 500, ratio |-> 3]

\* the music-only branch does not look at the directive
MusicOnlyFadeRule(prompt) == [cap |-> 500, ratio |-> 3]

\* mutant: the fade length is the cap alone
FadeDuration_capOnly(rule, effective_duration) == rule.cap

\* fade_duration = min(cap, effective_duration * ratio)
FadeDuration(rule, effective_duration) ==
    Min(rule.cap, (effective_duration * rule.ratio) \div 10)

FadeStart(effective_duration, fade_duration) ==
    Max(0, effective_duration - fade_duration)

\* [1:a]atrim=0:{video_duration},volume=...[,afade=t=out:st=..:d=..]
MusicFilter(D, music_duration, rule) ==
    LET effective_duration == Min(music_duration, D)
        fade_duration == FadeDuration(rule, effective_duration)
        fade_start == FadeStart(effective_duration, fade_duration)
    IN [ name   |-> "music",
         atrim  |-> {D},
         window |-> <<fade_start, fade_duration>>,
         fade   |-> IF effective_duration > fade_duration
                    THEN <<fade_start, fade_duration>> ELSE <<>> ]

\* [k:a]atrim=0:{video_duration},volume=...
VoiceFilter(D) == [name |-> "voice", atrim |-> {D}, fade |-> <<>>]

\* [0:a]volume=...   (the video's own audio is not trimmed)
VideoAudioFilter(D) == [name |-> "video", atrim |-> {}, fade |-> <<>>]

\* mutant: amix left at its default, duration=longest
AmixMode_longest == "longest"

\* amix=inputs=N:duration=first
AmixMode == "first"

\* '-shortest' is passed in the voiceover-only command alone
UsesShortest(case) == case = "voice"

\* length of a stream after its filter
FilteredLen(filter, native) ==
    IF filter.atrim = {} THEN native
    ELSE Min(native, CHOOSE d \in filter.atrim : TRUE)

RECURSIVE SeqMax(_)
SeqMax(q) == IF Len(q) = 1 THEN q[1] ELSE Max(q[1], SeqMax(Tail(q)))

RECURSIVE SeqMin(_)
SeqMin(q) == IF Len(q) = 1 THEN q[1] ELSE Min(q[1], SeqMin(Tail(q)))

AmixLen(lens, mode) ==
    CASE mode = "first"    -> lens[1]
      [] mode = "longest"  -> SeqMax(lens)
      [] mode = "shortest" -> SeqMin(lens)

\* -map 0:v -c:v copy with the mixed audio: the longer stream, or the shorter
\* one under -shortest
MuxDuration(video_len, audio_len, shortest) ==
    IF shortest THEN Min(video_len, audio_len) ELSE Max(video_len, audio_len)

\* the command stitch_video_with_audio builds; native: the true stream lengths
BuildMix(case, D, filters, native) ==
    LET lens == [k \in 1..Len(filters) |-> FilteredLen(filters[k], native[k])]
    IN [ case         |-> case,
         volumes      |-> parse_volume_from_prompt(s_prompt),
         streams      |-> filters,
         native       |-> native,
         amix         |-> AmixMode,
         shortest     |-> UsesShortest(case),
         out_duration |-> MuxDuration(native[1], AmixLen(lens, AmixMode),
                                      UsesShortest(case)) ]

StitchCase(music, voice) ==
    IF music # NoPath /\ voice # NoPath THEN "both"
    ELSE IF music # NoPath THEN "music"
    ELSE IF voice # NoPath THEN "voice"
    ELSE "unbound"

\* return of the mixdown to whoever called it
\* mutant: the orchestrator does not put the mixdown's output into temp_files
StitchReturns_untracked(path) ==
    IF caller = "pipeline"
    THEN /\ final_video_path' = path
         /\ temp_files' = temp_files
         /\ retval' = retval
         /\ Goto(StageAfter("mixdown"))
    ELSE /\ retval' = path
         /\ Goto("done")
         /\ UNCHANGED <<final_video_path, temp_files>>

StitchReturns(path) ==
    IF caller = "pipeline"
    THEN /\ final_video_path' = path
         /\ temp_files' = Append(temp_files, path)
         /\ retval' = retval
         /\ Goto(StageAfter("mixdown"))
    ELSE /\ retval' = path
         /\ Goto("done")
         /\ UNCHANGED <<final_video_path, temp_files>>

\* mutant: the mixdown is called without any audio track too
MixdownNeeded_always(narr, music) == TRUE

\* if local_narr or local_music
MixdownNeeded(narr, music) == narr # NoPath \/ music # NoPath

Mixdown ==
    /\ pc = "mixdown"
    /\ IF MixdownNeeded(local_narr, local_music)
       THEN /\ s_video' = concatenated_video
            /\ s_music' = local_music
            /\ s_voice' = local_narr
            /\ s_prompt' = volume_prompt
            /\ Goto("stitch_entry")
            /\ UNCHANGED final_video_path
       ELSE /\ final_video_path' = concatenated_video
            /\ Goto(StageAfter("mixdown"))
            /\ UNCHANGED <<s_video, s_music, s_voice, s_prompt>>
    /\ UNCHANGED <<caller, retval, probe_ret, raised_text, faults, events, inVars, otherVars, worldVars, concatVars>>
    /\ UNCHANGED <<local_videos, temp_files, local_narr, local_music,
                   concatenated_video, final_gcs_uri, idx, cleaned>>
    /\ UNCHANGED <<video_duration, true_video_duration, probes, output_path, mix>>

CallStitch ==
    /\ pc = "idle"
    /\ \E v \in {LocalA, LocalB}, m \in {NoPath, LocalMusic}, n \in {NoPath, LocalNarr},
          p \in PromptChoices :
        /\ s_video' = v
        /\ s_music' = m
        /\ s_voice' = n
        /\ s_prompt' = p
    /\ caller' = "stitch"
    /\ Goto("stitch_entry")
    /\ UNCHANGED <<retval, probe_ret, raised_text, faults, events, inVars, otherVars, orchVars, worldVars, concatVars>>
    /\ UNCHANGED <<video_duration, true_video_duration, probes, output_path, mix>>

\* the guard, the probe of the video and the choice of the output name
StitchEntry ==
    /\ pc = "stitch_entry"
    /\ IF StitchGuard(s_music, s_voice)
       THEN /\ StitchReturns(s_video)
            /\ UNCHANGED <<faults, events, video_duration, true_video_duration,
                           probes, output_path>>
       ELSE \E outcome \in ProbeOutcomes, T \in VideoDurations :
            LET r == get_video_duration(outcome, T)
            IN /\ probes' = Append(probes, [kind |-> "video", path |-> s_video,
                                            ok |-> outcome = "ok"])
               /\ events' = Append(events, "probe")
               /\ IF r.raised # "none"
                  THEN /\ Throw(r.raised)
                       /\ faults' = faults \cup {"probe"}
                       /\ UNCHANGED <<video_duration, true_video_duration, output_path>>
                  ELSE /\ video_duration' = r.value
                       /\ true_video_duration' = T
                       /\ output_path' = FreshTemp(disk, StitchSuffix)
                       /\ faults' = faults
                       /\ Goto("stitch_build")
               /\ UNCHANGED <<retval, final_video_path, temp_files>>
    /\ UNCHANGED <<caller, probe_ret, raised_text, inVars, otherVars, worldVars, concatVars>>
    /\ UNCHANGED <<local_videos, local_narr, local_music, concatenated_video,
                   final_gcs_uri, idx, cleaned>>
    /\ UNCHANGED <<s_video, s_music, s_voice, s_prompt, mix>>

\* the branch on the audio tracks present: probe of the music, filter graph
StitchBuild ==
    /\ pc = "stitch_build"
    /\ LET case == StitchCase(s_music, s_voice)
           D == video_duration
           T == true_video_duration
       IN CASE case = "both" ->
                 \E outcome \in ProbeOutcomes, M \in AudioDurations, V \in AudioDurations :
                 LET r == get_audio_duration(outcome, M)
                 IN /\ probes' = Append(probes, [kind |-> "audio", path |-> s_music,
                                                 ok |-> outcome = "ok"])
                    /\ events' = Append(events, "probe")
                    /\ IF r.raised # "none"
                       THEN /\ Throw(r.raised)
                            /\ faults' = faults \cup {"probe"}
                            /\ mix' = mix
                       ELSE /\ mix' = BuildMix(case, D,
                                        << VideoAudioFilter(D),
                                           MusicFilter(D, r.value, FadeRule(s_prompt)),
                                           VoiceFilter(D) >>,
                                        <<T, M, V>>)
                            /\ faults' = faults
                            /\ Goto("stitch_run")
            [] case = "music" ->
                 \E outcome \in ProbeOutcomes, M \in AudioDurations :
                 LET r == get_audio_duration(outcome, M)
                 IN /\ probes' = Append(probes, [kind |-> "audio", path |-> s_music,
                                                 ok |-> outcome = "ok"])
                    /\ events' = Append(events, "probe")
                    /\ IF r.raised # "none"
                       THEN /\ Throw(r.raised)
                            /\ faults' = faults \cup {"probe"}
                            /\ mix' = mix
                       ELSE /\ mix' = BuildMix(case, D,
                                        << VideoAudioFilter(D),
                                           MusicFilter(D, r.value, MusicOnlyFadeRule(s_prompt)) >>,
                                        <<T, M>>)
                            /\ faults' = faults
                            /\ Goto("stitch_run")
            [] case = "voice" ->
                 \E V \in AudioDurations :
                    /\ mix' = BuildMix(case, D, <<VideoAudioFilter(D), VoiceFilter(D)>>,
                                       <<T, V>>)
                    /\ Goto("stitch_run")
                    /\ UNCHANGED <<probes, events, faults>>
            [] case = "unbound" ->
                 \* no branch assigns cmd: UnboundLocalError
                 /\ Throw("UnboundLocalError")
                 /\ faults' = faults \cup {"mixdown"}
                 /\ UNCHANGED <<probes, events, mix>>
    /\ UNCHANGED <<caller, retval, probe_ret, raised_text, inVars, otherVars, orchVars, worldVars, concatVars>>
    /\ UNCHANGED <<s_video, s_music, s_voice, s_prompt, video_duration,
                   true_video_duration, output_path>>

\* self.run_ffmpeg_command(cmd, ...); return output_path
StitchRun ==
    /\ pc = "stitch_run"
    /\ \E outcome \in ToolOutcomes : \E written \in ToolWrites(outcome, output_path) :
        /\ disk' = disk \cup written
        /\ created' = created \cup written
        /\ events' = Append(events, "mix")
        /\ IF run_ffmpeg_command(outcome) = "none"
           THEN /\ StitchReturns(output_path)
                /\ faults' = faults
           ELSE /\ Throw(run_ffmpeg_command(outcome))
                /\ faults' = faults \cup {"mixdown"}
                /\ UNCHANGED <<retval, final_video_path, temp_files>>
        /\ \E stderr \in IF outcome = "nonzero_exit" THEN StderrChoices ELSE {<<>>} :
             raised_text' = ErrorText(outcome, StitchErrorMsg, stderr)
    /\ UNCHANGED <<caller, probe_ret, inVars, otherVars, removed, remove_failures, uploads, concatVars, stitchVars>>
    /\ UNCHANGED <<local_videos, local_narr, local_music, concatenated_video,
                   final_gcs_uri, idx, cleaned>>


\* ------------------------------------------- orchestrator: UPLOAD, CLEANUP
\* mutant: the destination name has no generated part
FreshUuid_fixed(written) == "0"

\* uuid.uuid4().hex: a name no earlier upload of the store has
FreshUuid(written) == ToString(Len(written) + 1)

\* gs://{bucket}/artisan_videos/processed_video_{n}_clips_{uuid}.mp4
OutputGcsUri(n, uuid) ==
    GsScheme \o <<"out", "/", "artisan_videos", "/", "processed_video_",
                  ToString(n), "_clips_", uuid, ".mp4">>

Upload ==
    /\ pc = "upload"
    /\ LET output_gcs_uri == OutputGcsUri(Len(video_uris), FreshUuid(uploads))
       IN \E o \in upload_to_gcs(final_video_path, output_gcs_uri, disk) :
            /\ events' = Append(events, "upload")
            /\ IF o.raised # "none"
               THEN /\ Throw(o.raised)
                    /\ faults' = faults \cup {"upload"}
                    /\ UNCHANGED <<uploads, final_gcs_uri>>
               ELSE /\ uploads' = Append(uploads, [src |-> final_video_path,
                                                   dest |-> output_gcs_uri])
                    /\ final_gcs_uri' = o.value
                    /\ faults' = faults
                    /\ Goto(StageAfter("upload"))
    /\ UNCHANGED <<caller, retval, probe_ret, raised_text, inVars, otherVars, disk, created, removed, remove_failures>>
    /\ UNCHANGED <<local_videos, temp_files, local_narr, local_music,
                   concatenated_video, final_video_path, idx, cleaned>>
    /\ UNCHANGED <<concatVars, stitchVars>>

\* os.remove either deletes the file or raises (caught and logged in the loop)
RemoveOutcomes == {"ok", "oserror"}

\* mutant: one try block around the whole loop, a failure ends it
AfterRemove_stopOnFailure(outcome, i, n) == IF outcome = "ok" THEN i + 1 ELSE n

\* the try block is inside the loop: after a deletion, failed or not, the
\* loop goes on to the next of the n files
AfterRemove(outcome, i, n) == i + 1

\* one iteration of 'for temp_file in temp_files'
Cleanup ==
    /\ pc = "cleanup"
    /\ cleaned < Len(temp_files)
    /\ LET temp_file == temp_files[cleaned + 1]
       IN IF temp_file \in disk
          THEN \E outcome \in RemoveOutcomes :
                /\ outcome # "ok" => remove_failures < MaxRemoveFailures
                /\ events' = Append(events, "remove")
                /\ IF outcome = "ok"
                   THEN /\ disk' = disk \ {temp_file}
                        /\ removed' = removed \cup {temp_file}
                        /\ UNCHANGED <<faults, remove_failures>>
                   ELSE /\ faults' = faults \cup {"cleanup"}
                        /\ remove_failures' = remove_failures + 1
                        /\ UNCHANGED <<disk, removed>>
                /\ cleaned' = AfterRemove(outcome, cleaned, Len(temp_files))
          ELSE /\ UNCHANGED <<events, disk, removed, remove_failures, faults>>
               /\ cleaned' = AfterRemove("ok", cleaned, Len(temp_files))
    /\ Goto("cleanup")
    /\ UNCHANGED <<caller, retval, probe_ret, raised_text, inVars, otherVars, created, uploads>>
    /\ UNCHANGED <<local_videos, temp_files, local_narr, local_music,
                   concatenated_video, final_video_path, final_gcs_uri, idx>>
    /\ UNCHANGED <<concatVars, stitchVars>>

ReturnSuccess ==
    /\ pc = "cleanup"
    /\ cleaned >= Len(temp_files)
    /\ ReturnResult(SuccessResult(final_video_path, final_gcs_uri))
    /\ UNCHANGED <<caller, retval, probe_ret, raised_text, faults, events>>
    /\ UNCHANGED <<inVars, otherVars, orchVars, worldVars, concatVars, stitchVars>>

\* --------------------------------------------- the probe called directly
CallProbe ==
    /\ pc = "idle"
    /\ \E kind \in {"audio", "video"}, outcome \in ProbeOutcomes,
          d \in VideoDurations \cup AudioDurations :
        LET r == IF kind = "audio" THEN get_audio_duration(outcome, d)
                 ELSE get_video_duration(outcome, d)
        IN /\ probe_ret' = r
           /\ raised' = r.raised
           /\ caller' = kind
           /\ probes' = Append(probes, [kind |-> kind, path |-> LocalA,
                                        ok |-> outcome = "ok"])
           /\ true_video_duration' = d
    /\ pc' = "done"
    /\ events' = Append(events, "probe")
    /\ UNCHANGED <<returned, retval, raised_text, faults, inVars, otherVars, orchVars, worldVars, concatVars>>
    /\ UNCHANGED <<s_video, s_music, s_voice, s_prompt, video_duration, output_path, mix>>

\* ------------------------------------ the store helpers called directly
\* remote locations that are not of the form gs://bucket/object: another
\* scheme, no scheme, an empty bucket, no object, an empty object
HttpUri == <<"h", "t", "t", "p", ":", "/", "/", "bkt", "/", "v">>

GsNoBucket == <<"g", "s", ":", "/", "/", "/", "v">>

GsEmptyBlob == <<"g", "s", ":", "/", "/", "bkt", "/">>

MalformedUris == {HttpUri, LocalA, GsNoBucket, GsNoBlob, GsEmptyBlob}

GsNested == <<"g", "s", ":", "/", "/", "bkt", "/", "dir", "/", "v">>

WellFormedUris == {GsVideo, GsNested}

\* storage.Client() is reached unless one of the two checks raised
StoreEvents(raised_exc, op) ==
    IF raised_exc = "ValueError" THEN <<>> ELSE <<"client", op>>

CallDownload ==
    /\ pc = "idle"
    /\ \E uri \in MalformedUris \cup WellFormedUris :
       \E o \in download_to_temp(uri, disk) :
         /\ store_uri' = uri
         /\ disk' = disk \cup FilesOf(o)
         /\ created' = created \cup FilesOf(o)
         /\ events' = StoreEvents(o.raised, "download")
         /\ raised' = o.raised
         /\ retval' = o.value
    /\ caller' = "download"
    /\ pc' = "done"
    /\ UNCHANGED <<returned, probe_ret, raised_text, faults, store_local, parseVars, runVars, pollVars, apiVars>>
    /\ UNCHANGED <<inVars, orchVars, removed, remove_failures, uploads, concatVars, stitchVars>>

CallUpload ==
    /\ pc = "idle"
    /\ \E local_path \in {LocalA, LocalMissing}, uri \in MalformedUris \cup WellFormedUris :
       \E o \in upload_to_gcs(local_path, uri, disk) :
         /\ store_uri' = uri
         /\ store_local' = local_path
         /\ uploads' = IF o.wrote THEN Append(uploads, [src |-> local_path, dest |-> uri])
                        ELSE uploads
         /\ events' = StoreEvents(o.raised, "upload")
         /\ raised' = o.raised
         /\ retval' = o.value
    /\ caller' = "upload"
    /\ pc' = "done"
    /\ UNCHANGED <<returned, probe_ret, raised_text, faults, parseVars, runVars, pollVars, apiVars>>
    /\ UNCHANGED <<inVars, orchVars, disk, created, removed, remove_failures, concatVars, stitchVars>>

\* ------------------------------------------------------- specification
Next ==
    \/ CallPipeline
    \/ ResolveVideo
    \/ ResolveNarration
    \/ ResolveMusic
    \/ Compose
    \/ CallConcat
    \/ ConcatEntry
    \/ ConcatStep
    \/ ConcatReturn
    \/ Mixdown
    \/ CallStitch
    \/ StitchEntry
    \/ StitchBuild
    \/ StitchRun
    \/ Upload
    \/ Cleanup
    \/ ReturnSuccess
    \/ CallProbe
    \/ CallDownload
    \/ CallUpload

Spec == Init /\ [][Next]_vars

\* ------------------------------------------------------ concurrent runs
\* Several runs of process_videos_with_ffmpeg_mcp in one temp directory and one
\* store. Each run is the pipeline reduced to the files it names, writes and
\* deletes; the external tool and the store succeed.
MaxRunVideos == 2

TempNames == 2

\* the names tempfile can hand out for a suffix
TempCandidates(suffix) == {TempPath(k, suffix) : k \in 1..TempNames}

FilesPresent == {f.name : f \in tmpdir}

\* tempfile.mktemp(suffix): a name that no file has at the time of the call;
\* the file itself is created later, by whoever writes to the name first
mktemp(suffix) == {name \in TempCandidates(suffix) : name \notin FilesPresent}

\* tempfile.mkstemp(): the name is chosen and the file created in one step
mkstemp == {name \in TempCandidates(<<>>) : name \notin FilesPresent}

\* the runs other than r to which the name belongs now: they wrote the file
\* that is there, or they hold the name for a write to come
OwnersBut(r, name) ==
    {q \in Runs \ {r} :
        \/ [name |-> name, by |-> q] \in tmpdir
        \/ runs[q].pending = name}

\* ffmpeg -y ... name / blob.download_to_filename(name) by run r
WriteTemp(r, name) ==
    /\ tmpdir' = {f \in tmpdir : f.name # name} \cup {[name |-> name, by |-> r]}
    /\ conflicts' = conflicts \cup
          {[kind |-> "write", by |-> r, of |-> q, name |-> name] : q \in OwnersBut(r, name)}

\* where a run goes once its inputs are local
AfterResolve(n) == IF n > 1 THEN "fold_name" ELSE "mixdown"

RunStart(r) ==
    /\ runs[r].pc = "idle"
    /\ \E n \in 1..MaxRunVideos, remote \in BOOLEAN, audio \in BOOLEAN :
         runs' = [runs EXCEPT ![r] =
                    [ @ EXCEPT !.n = n, !.remote = remote, !.audio = audio, !.i = 1,
                               !.current = LocalA,
                               !.pc = IF remote THEN "download" ELSE AfterResolve(n) ]]
    /\ UNCHANGED <<tmpdir, dests, conflicts>>
    /\ UNCHANGED <<ctlVars, pipeVars, parseVars, storeVars, pollVars, apiVars>>

\* download_to_temp of the first video: mkstemp, then the download into it
RunDownload(r) ==
    /\ runs[r].pc = "download"
    /\ \E name \in mkstemp :
         /\ WriteTemp(r, name)
         /\ runs' = [runs EXCEPT ![r] =
                       [ @ EXCEPT !.current = name,
                                  !.temp_files = Append(@, name),
                                  !.pc = AfterResolve(runs[r].n) ]]
    /\ UNCHANGED dests
    /\ UNCHANGED <<ctlVars, pipeVars, parseVars, storeVars, pollVars, apiVars>>

\* output_path = tempfile.mktemp(suffix=f"_transition_{i}.mp4")
RunFoldName(r) ==
    /\ runs[r].pc = "fold_name"
    /\ \E name \in mktemp(TransitionSuffix(runs[r].i)) :
         runs' = [runs EXCEPT ![r] = [@ EXCEPT !.pending = name, !.pc = "fold_write"]]
    /\ UNCHANGED <<tmpdir, dests, conflicts>>
    /\ UNCHANGED <<ctlVars, pipeVars, parseVars, storeVars, pollVars, apiVars>>

\* the fold command writes output_path; after the last step the compositor
\* returns and the orchestrator notes the result in temp_files
RunFoldWrite(r) ==
    /\ runs[r].pc = "fold_write"
    /\ WriteTemp(r, runs[r].pending)
    /\ LET last == runs[r].i >= runs[r].n - 1
       IN runs' = [runs EXCEPT ![r] =
                    [ @ EXCEPT !.current = runs[r].pending,
                               !.pending = NoPath,
                               !.i = @ + 1,
                               !.temp_files = IF last THEN Append(@, runs[r].pending) ELSE @,
                               !.pc = IF last THEN "mixdown" ELSE "fold_name" ]]
    /\ UNCHANGED dests
    /\ UNCHANGED <<ctlVars, pipeVars, parseVars, storeVars, pollVars, apiVars>>

\* output_path = tempfile.mktemp(suffix="_stitched.mp4"), when there is audio
RunStitchName(r) ==
    /\ runs[r].pc = "mixdown"
    /\ IF runs[r].audio
       THEN \E name \in mktemp(StitchSuffix) :
              runs' = [runs EXCEPT ![r] = [@ EXCEPT !.pending = name, !.pc = "stitch_write"]]
       ELSE runs' = [runs EXCEPT ![r] = [@ EXCEPT !.pc = "upload"]]
    /\ UNCHANGED <<tmpdir, dests, conflicts>>
    /\ UNCHANGED <<ctlVars, pipeVars, parseVars, storeVars, pollVars, apiVars>>

RunStitchWrite(r) ==
    /\ runs[r].pc = "stitch_write"
    /\ WriteTemp(r, runs[r].pending)
    /\ runs' = [runs EXCEPT ![r] =
                  [ @ EXCEPT !.current = runs[r].pending,
                             !.pending = NoPath,
                             !.temp_files = Append(@, runs[r].pending),
                             !.pc = "upload" ]]
    /\ UNCHANGED dests
    /\ UNCHANGED <<ctlVars, pipeVars, parseVars, storeVars, pollVars, apiVars>>

\* upload_to_gcs(final_video_path, output_gcs_uri) with a new uuid4
RunUpload(r) ==
    /\ runs[r].pc = "upload"
    /\ dests' = Append(dests, [by |-> r, src |-> runs[r].current,
                               dest |-> OutputGcsUri(runs[r].n, FreshUuid(dests))])
    /\ runs' = [runs EXCEPT ![r] = [@ EXCEPT !.pc = "cleanup"]]
    /\ UNCHANGED <<tmpdir, conflicts>>
    /\ UNCHANGED <<ctlVars, pipeVars, parseVars, storeVars, pollVars, apiVars>>

\* for temp_file in temp_files: if os.path.exists(temp_file): os.remove(temp_file)
RunCleanup(r) ==
    /\ runs[r].pc = "cleanup"
    /\ LET mine == {runs[r].temp_files[k] : k \in 1..Len(runs[r].temp_files)}
           gone == {f \in tmpdir : f.name \in mine}
       IN /\ tmpdir' = tmpdir \ gone
          /\ conflicts' = conflicts \cup
                UNION {{[kind |-> "delete", by |-> r, of |-> q, name |-> f.name] :
                          q \in OwnersBut(r, f.name)} : f \in gone}
    /\ runs' = [runs EXCEPT ![r] = [@ EXCEPT !.pc = "done"]]
    /\ UNCHANGED dests
    /\ UNCHANGED <<ctlVars, pipeVars, parseVars, storeVars, pollVars, apiVars>>

RunsNext ==
    \E r \in Runs :
        \/ RunStart(r)
        \/ RunDownload(r)
        \/ RunFoldName(r)
        \/ RunFoldWrite(r)
        \/ RunStitchName(r)
        \/ RunStitchWrite(r)
        \/ RunUpload(r)
        \/ RunCleanup(r)

RunsSpec == Init /\ [][RunsNext]_vars

\* ----------------------------------------------------- video generation
\* generate_artisan_video: the request to the video model, then the polling
\* of the long-running operation it returned
MAX_WAIT_TIME == 600

POLL_INTERVAL == 15

\* what a fetch of the operation can show: still running, or finished with
\* or without generated videos
OperationStates ==
    { [done |-> FALSE, generated_videos |-> FALSE],
      [done |-> TRUE,  generated_videos |-> TRUE],
      [done |-> TRUE,  generated_videos |-> FALSE] }

\* mutant: the loop goes on while wait_time <= max_wait_time
PollGuard_inclusive(op, waited) == ~op.done /\ waited <= MAX_WAIT_TIME

\* while not operation.done and wait_time < max_wait_time
PollGuard(op, waited) == ~op.done /\ waited < MAX_WAIT_TIME

VideoResult(status) == [status |-> status]

\* client.models.generate_videos(...): an operation, or an exception, which
\* 'except Exception' turns into the error result
CallGenerateVideo ==
    /\ pc = "idle"
    /\ caller' = "generate_video"
    /\ \/ \E op \in OperationStates :
            /\ operation' = op
            /\ pc' = "poll"
            /\ UNCHANGED returned
       \/ /\ returned' = Append(returned, VideoResult("error"))
          /\ pc' = "done"
          /\ UNCHANGED operation
    /\ UNCHANGED <<raised, retval, probe_ret, raised_text, faults, events, wait_time, polls>>
    /\ UNCHANGED <<pipeVars, parseVars, storeVars, runVars, apiVars>>

\* one iteration of the polling loop: sleep, count the time, fetch
PollOperation ==
    /\ pc = "poll"
    /\ PollGuard(operation, wait_time)
    /\ wait_time' = wait_time + POLL_INTERVAL
    /\ polls' = polls + 1
    /\ \/ \E op \in OperationStates :
            /\ operation' = op
            /\ pc' = "poll"
            /\ UNCHANGED returned
       \/ /\ returned' = Append(returned, VideoResult("error"))
          /\ pc' = "done"
          /\ UNCHANGED operation
    /\ UNCHANGED <<caller, raised, retval, probe_ret, raised_text, faults, events>>
    /\ UNCHANGED <<pipeVars, parseVars, storeVars, runVars, apiVars>>

\* after the loop: timeout, success or failed, tested in this order
PollResult ==
    /\ pc = "poll"
    /\ ~PollGuard(operation, wait_time)
    /\ returned' = Append(returned,
          IF wait_time >= MAX_WAIT_TIME THEN VideoResult("timeout")
          ELSE IF operation.generated_videos THEN VideoResult("success")
          ELSE VideoResult("failed"))
    /\ pc' = "done"
    /\ UNCHANGED <<caller, raised, retval, probe_ret, raised_text, faults, events>>
    /\ UNCHANGED <<pipeVars, otherVars>>

PollNext ==
    \/ CallGenerateVideo
    \/ PollOperation
    \/ PollResult

PollSpec == Init /\ [][PollNext]_vars

\* ------------------------------------------------------ POST /generate
\* The request fields the model draws from, each with what it is: a text and
\* whether it is a usable user id / description, has the gs:// scheme, names
\* an image file.
UserIds ==
    << [text |-> <<>>, usable |-> FALSE],
       [text |-> <<"u", "1">>, usable |-> TRUE] >>

Descriptions ==
    << [text |-> <<>>, usable |-> FALSE],
       [text |-> <<" ", " ">>, usable |-> FALSE],
       [text |-> <<" ", "S", "p", "i", "c", "e", " ", "B", "o", "x">>, usable |-> TRUE] >>

ImageUris ==
    << [text |-> <<>>, scheme |-> FALSE, image |-> FALSE],
       [text |-> <<"h", "t", "t", "p", ":", "/", "/", "x", "/", "i", ".", "j", "p", "g">>, scheme |-> FALSE, image |-> TRUE],
       [text |-> <<"b", "/", "d", ".", "p", "d", "f">>, scheme |-> FALSE, image |-> FALSE],
       [text |-> <<"g", "s", ":", "/", "/", "b", "/", "d", ".", "p", "d", "f">>, scheme |-> TRUE, image |-> FALSE],
       [text |-> <<"g", "s", ":", "/", "/", "b", "/", "i", ".", "j", "p", "g">>, scheme |-> TRUE, image |-> TRUE],
       [text |-> <<"g", "s", ":", "/", "/", "b", "/", "I", ".", "P", "N", "G">>, scheme |-> TRUE, image |-> TRUE] >>

Whitespace == {" ", "\t", "\n"}

\* str.strip()
RECURSIVE Strip(_)
Strip(t) ==
    IF t = <<>> THEN t
    ELSE IF t[1] \in Whitespace THEN Strip(Tail(t))
    ELSE IF t[Len(t)] \in Whitespace THEN Strip(SubSeq(t, 1, Len(t) - 1))
    ELSE t

\* str.endswith(suffix)
EndsWith(t, suffix) ==
    Len(t) >= Len(suffix) /\ SubSeq(t, Len(t) - Len(suffix) + 1, Len(t)) = suffix

\* valid_extensions = ['.jpg', '.jpeg', '.png', '.gif', '.bmp', '.webp']
valid_extensions ==
    << <<".", "j", "p", "g">>,
       <<".", "j", "p", "e", "g">>,
       <<".", "p", "n", "g">>,
       <<".", "g", "i", "f">>,
       <<".", "b", "m", "p">>,
       <<".", "w", "e", "b", "p">> >>

HttpError(code, detail) == [status_code |-> code, detail |-> detail]

\* the HTTPException validate_request raises, NoResponse if it raises none
validate_request(req) ==
    IF req.user_id = <<>>
    THEN HttpError(400, "User ID is required for content generation")
    ELSE IF req.product_description = <<>> \/ Len(Strip(req.product_description)) = 0
    THEN HttpError(400, "Product description is required and cannot be empty")
    ELSE IF req.gcs_image_uri = <<>>
    THEN HttpError(400, "GCS image URI is required for content generation")
    ELSE IF ~StartsWith(req.gcs_image_uri, GsScheme)
    THEN HttpError(400, "GCS image URI must start with 'gs://' (example: gs://bucket-name/image.jpg)")
    ELSE IF ~\E k \in 1..Len(valid_extensions) :
                EndsWith(Lower(req.gcs_image_uri), valid_extensions[k])
    THEN HttpError(400, "GCS URI should point to an image file (.jpg, .jpeg, .png, .gif, .bmp, .webp)")
    ELSE NoResponse

\* mutant: the agent-availability check placed before the validation
ApiStageAfter_agentFirst(stage) ==
    CASE stage = "called"      -> "check_agent"
      [] stage = "check_agent" -> "validate"
      [] stage = "validate"    -> "query"

\* the order of the steps of generate_content
ApiStageAfter(stage) ==
    CASE stage = "called"      -> "validate"
      [] stage = "validate"    -> "check_agent"
      [] stage = "check_agent" -> "query"

\* what the query of the agent can end in, and the status sent back
AgentOutcomes == {"json", "no_response", "invalid_json", "exception", "timeout"}

AgentStatus(outcome) ==
    CASE outcome = "json"    -> 200
      [] outcome = "timeout" -> 408
      [] OTHER               -> 500

CallGenerateContent ==
    /\ pc = "idle"
    /\ \E u \in 1..Len(UserIds), d \in 1..Len(Descriptions), g \in 1..Len(ImageUris) :
         request' = [ user_id             |-> UserIds[u].text,
                      product_description |-> Descriptions[d].text,
                      gcs_image_uri       |-> ImageUris[g].text ]
    /\ app_wrapper' \in BOOLEAN
    /\ caller' = "generate_content"
    /\ pc' = ApiStageAfter("called")
    /\ UNCHANGED <<returned, raised, retval, probe_ret, raised_text, faults, events>>
    /\ UNCHANGED <<response, agent_queries, streamVars>>
    /\ UNCHANGED <<pipeVars, parseVars, storeVars, runVars, pollVars>>

\* validate_request(request)
ValidateRequest ==
    /\ pc = "validate"
    /\ IF validate_request(request) # NoResponse
       THEN /\ response' = validate_request(request)
            /\ pc' = "done"
       ELSE /\ pc' = ApiStageAfter("validate")
            /\ UNCHANGED response
    /\ UNCHANGED <<caller, returned, raised, retval, probe_ret, raised_text, faults, events>>
    /\ UNCHANGED <<request, app_wrapper, agent_queries, streamVars>>
    /\ UNCHANGED <<pipeVars, parseVars, storeVars, runVars, pollVars>>

\* if app_wrapper is None: raise HTTPException(status_code=503, ...)
CheckAgent ==
    /\ pc = "check_agent"
    /\ IF ~app_wrapper
       THEN /\ response' = HttpError(503, "Agent service unavailable. Check logs and environment configuration.")
            /\ pc' = "done"
       ELSE /\ pc' = ApiStageAfter("check_agent")
            /\ UNCHANGED response
    /\ UNCHANGED <<caller, returned, raised, retval, probe_ret, raised_text, faults, events>>
    /\ UNCHANGED <<request, app_wrapper, agent_queries, streamVars>>
    /\ UNCHANGED <<pipeVars, parseVars, storeVars, runVars, pollVars>>

\* the events the stream of the agent yields at most
MaxEvents == 2

\* timeout = 600: the seconds given to the processing of the stream
timeout == 600

\* the seconds that can pass between two looks at the clock
ClockSteps == {300, 301}

\* an event of the stream: without text, or with a text that is JSON or not
EventKinds == {"no_text", "json", "not_json"}

\* if time.time() - start_iteration > timeout
DeadlinePassed(elapsed) == elapsed > timeout

\* final_response = part['text'] for a part with non-blank text
AfterEvent(final, kind) == IF kind = "no_text" THEN final ELSE kind

\* what the code after the loop makes of final_response
StreamOutcome(final) ==
    CASE final = "none"     -> "no_response"
      [] final = "json"     -> "json"
      [] final = "not_json" -> "invalid_json"

AgentResponse(outcome) == [status_code |-> AgentStatus(outcome), detail |-> outcome]

\* stream = app_wrapper.async_stream_query(...); start_iteration = time.time()
QueryAgent ==
    /\ pc = "query"
    /\ agent_queries' = agent_queries + 1
    /\ \/ /\ pc' = "stream"
          /\ UNCHANGED response
       \/ /\ response' = AgentResponse("exception")
          /\ pc' = "done"
    /\ UNCHANGED <<caller, returned, raised, retval, probe_ret, raised_text, faults, events>>
    /\ UNCHANGED <<request, app_wrapper, streamVars>>
    /\ UNCHANGED <<pipeVars, parseVars, storeVars, runVars, pollVars>>

\* the stream yields an event: the body of 'async for' looks at the clock
\* first, then keeps the text of the event
StreamEvent ==
    /\ pc = "stream"
    /\ stream_events < MaxEvents
    /\ \E dt \in ClockSteps, kind \in EventKinds :
         /\ stream_clock' = stream_clock + dt
         /\ IF DeadlinePassed(stream_clock + dt)
            THEN /\ response' = AgentResponse("timeout")
                 /\ pc' = "done"
                 /\ UNCHANGED <<stream_events, final_response>>
            ELSE /\ stream_events' = stream_events + 1
                 /\ final_response' = AfterEvent(final_response, kind)
                 /\ UNCHANGED <<pc, response>>
    /\ stream_last' = "event"
    /\ UNCHANGED <<caller, returned, raised, retval, probe_ret, raised_text, faults, events>>
    /\ UNCHANGED <<request, app_wrapper, agent_queries>>
    /\ UNCHANGED <<pipeVars, parseVars, storeVars, runVars, pollVars>>

\* the stream is exhausted: the loop is left without a look at the clock
StreamEnd ==
    /\ pc = "stream"
    /\ \E dt \in ClockSteps : stream_clock' = stream_clock + dt
    /\ response' = AgentResponse(StreamOutcome(final_response))
    /\ stream_last' = "end"
    /\ pc' = "done"
    /\ UNCHANGED <<caller, returned, raised, retval, probe_ret, raised_text, faults, events>>
    /\ UNCHANGED <<request, app_wrapper, agent_queries, stream_events, final_response>>
    /\ UNCHANGED <<pipeVars, parseVars, storeVars, runVars, pollVars>>

\* the agent raises while the next event is awaited: except Exception
StreamRaise ==
    /\ pc = "stream"
    /\ \E dt \in ClockSteps : stream_clock' = stream_clock + dt
    /\ response' = AgentResponse("exception")
    /\ stream_last' = "raise"
    /\ pc' = "done"
    /\ UNCHANGED <<caller, returned, raised, retval, probe_ret, raised_text, faults, events>>
    /\ UNCHANGED <<request, app_wrapper, agent_queries, stream_events, final_response>>
    /\ UNCHANGED <<pipeVars, parseVars, storeVars, runVars, pollVars>>

ApiNext ==
    \/ CallGenerateContent
    \/ ValidateRequest
    \/ CheckAgent
    \/ QueryAgent
    \/ StreamEvent
    \/ StreamEnd
    \/ StreamRaise

ApiSpec == Init /\ [][ApiNext]_vars

\* ------------------------------------------- the parser called directly
CallParse ==
    /\ pc = "idle"
    /\ \E ps \in DirectiveChoices :
         /\ p_phrases' = ps
         /\ volumes' = parse_volume_from_prompt(Directive(ps))
    /\ caller' = "parser"
    /\ pc' = "done"
    /\ UNCHANGED <<returned, raised, retval, probe_ret, raised_text, faults, events>>
    /\ UNCHANGED <<pipeVars, storeVars, runVars, pollVars, apiVars>>

ParserNext == CallParse

ParserSpec == Init /\ [][ParserNext]_vars


\* ====================================================== the claims
PipelineDone == caller = "pipeline" /\ pc = "done" /\ Len(returned) = 1

Leaked == created \cap disk

\* the failures that leave their stage (a failed deletion is caught in the loop)
PropagatingFaults == {"download", "exists", "compose", "probe", "mixdown", "upload"}

\* C1: every run of the orchestrator ends with exactly one returned value, no
\* exception leaves it, and a failure of download, existence check, compose,
\* probe, mixdown or upload ends the run at once with status "error" and a
\* detail message.
C1_OneResultNoEscape ==
    caller = "pipeline" =>
        /\ raised = "none"
        /\ Len(returned) = (IF pc = "done" THEN 1 ELSE 0)
        /\ faults \cap PropagatingFaults # {} =>
              /\ pc = "done"
              /\ returned[1].status = "error"
              /\ "detail" \in DOMAIN returned[1]
              /\ returned[1].detail # <<>>

\* an exception the probe lets through (ffprobe missing) reached the handler
C1_Witness ==
    /\ PipelineDone
    /\ "probe" \in faults
    /\ returned[1] = ErrorResult(<<"Video processing failed", "FileNotFoundError">>)

\* C2: after a run that ends with a non-success result no temporary file the
\* run created is left on disk.
C2_NoTempLeftOnFailure ==
    (PipelineDone /\ returned[1].status # "success") => Leaked = {}

\* C3: after a successful run (no deletion failed) every temporary file the
\* run created is deleted: downloads, every fold output, the mixdown output.
C3_AllTempsDeletedOnSuccess ==
    (PipelineDone /\ returned[1].status = "success" /\ remove_failures = 0)
        => Leaked = {}

StageRank(e) ==
    CASE e \in {"download", "exists"} -> 1
      [] e = "fold"                   -> 2
      [] e \in {"probe", "mix"}       -> 3
      [] e = "upload"                 -> 4
      [] e = "remove"                 -> 5

PcRank(p) ==
    CASE p = "idle"                                            -> 0
      [] p \in {"resolve_videos", "resolve_narr", "resolve_music"} -> 1
      [] p \in {"compose", "concat_entry", "concat_loop"}      -> 2
      [] p \in {"mixdown", "stitch_entry", "stitch_build", "stitch_run"} -> 3
      [] p = "upload"                                          -> 4
      [] p = "cleanup"                                         -> 5
      [] p = "done"                                            -> 6

Happened(e) == \E k \in 1..Len(events) : events[k] = e

AllResolved ==
    /\ Len(local_videos) = Len(video_uris)
    /\ narration_path # NoPath => local_narr # NoPath
    /\ music_path # NoPath => local_music # NoPath

ComposeFinished ==
    Len(local_videos) > 1 =>
        /\ Len(steps) = Len(local_videos) - 1
        /\ \A k \in 1..Len(steps) : steps[k].ok
        /\ concatenated_video = steps[Len(steps)].out

MixdownFinished ==
    IF local_narr # NoPath \/ local_music # NoPath
    THEN Happened("mix") /\ final_video_path = output_path /\ output_path \in created
    ELSE ~Happened("mix") /\ final_video_path = concatenated_video

\* C4: the operations of a run occur in the order RESOLVE_INPUTS, COMPOSE,
\* MIXDOWN, UPLOAD, CLEANUP and no stage is entered again: no fold before all
\* inputs are resolved, one upload at most and only after compose and mixdown
\* have finished, no deletion before the upload has returned.
C4_StagesInOrder ==
    caller = "pipeline" =>
        /\ \A i, j \in 1..Len(events) :
               i < j => StageRank(events[i]) <= StageRank(events[j])
        /\ \A k \in 1..Len(events) : StageRank(events[k]) <= PcRank(pc)
        /\ Happened("fold") => AllResolved
        /\ Happened("probe") => AllResolved
        /\ Happened("upload") => AllResolved /\ ComposeFinished /\ MixdownFinished
        /\ Cardinality({k \in 1..Len(events) : events[k] = "upload"}) <= 1
        /\ (Happened("remove") \/ removed # {}) =>
               Len(uploads) = 1 /\ final_gcs_uri = uploads[1].dest

\* a run that went through every stage: download, fold, mix, upload, deletion
C4_Witness ==
    /\ PipelineDone
    /\ \A e \in {"download", "fold", "mix", "upload", "remove"} : Happened(e)

\* C5: a result with status "success" carries the output location, which is
\* the destination the final video was uploaded to, and is returned only after
\* the upload completed; any other result has status "error", a detail message
\* and no output location.
C5_ResultNeverPartial ==
    PipelineDone =>
        LET r == returned[1]
        IN IF r.status = "success"
           THEN /\ DOMAIN r = {"status", "detail", "video_path", "video_uri"}
                /\ Len(uploads) = 1
                /\ r.video_uri = uploads[1].dest
                /\ uploads[1].src = final_video_path
                /\ GcsUriError(r.video_uri) = "none"
           ELSE /\ r.status = "error"
                /\ DOMAIN r = {"status", "detail"}
                /\ r.detail # <<>>

C5_Witness ==
    /\ PipelineDone
    /\ returned[1].status = "success"
    /\ returned[1].video_uri = OutputGcsUri(Len(video_uris), "1")


\* the fold steps performed so far follow the input list
FoldsFollow(paths) ==
    /\ Len(steps) <= Max(Len(paths) - 1, 0)
    /\ \A k \in 1..Len(steps) :
         /\ steps[k].first = (IF k = 1 THEN paths[1] ELSE steps[k - 1].out)
         /\ steps[k].second = paths[k + 1]
         /\ k < Len(steps) => steps[k].ok

\* the compositor returned path for the list paths
FoldsComplete(paths, path) ==
    /\ Len(steps) = Len(paths) - 1
    /\ \A k \in 1..Len(steps) : steps[k].ok
    /\ path = steps[Len(paths) - 1].out

\* C6: for N >= 2 videos the compositor runs exactly N-1 crossfade steps, left
\* to right: step k joins the output of step k-1 (videos[0] for k = 1) with
\* videos[k], nothing is reordered, skipped or deduplicated, and the value
\* returned is the output of step N-1.
C6_FoldLeftToRight ==
    /\ FoldsFollow(video_paths)
    /\ (caller = "concat" /\ pc = "done" /\ raised = "none" /\ Len(video_paths) >= 2)
           => FoldsComplete(video_paths, retval)
    /\ (caller = "pipeline" /\ concatenated_video # NoPath /\ Len(local_videos) >= 2)
           => video_paths = local_videos /\ FoldsComplete(local_videos, concatenated_video)

\* three videos, the first twice: two steps, the second on the first's output
C6_Witness ==
    /\ caller = "concat"
    /\ pc = "done"
    /\ video_paths = <<LocalA, LocalB, LocalA>>
    /\ Len(steps) = 2
    /\ steps[2].first = steps[1].out
    /\ retval = steps[2].out

StitchDone ==
    /\ output_path # NoPath
    /\ Happened("mix")
    /\ output_path \in {retval, final_video_path}

VideoProbes == {k \in 1..Len(probes) : probes[k].kind = "video"}

AudioStreamsTrimmedTo(D) ==
    \A k \in 2..Len(mix.streams) : mix.streams[k].atrim = {D}

\* C8 as stated: the mixdown probes the video once, trims every audio track to
\* [0, D], D the probed duration, and its output lasts D.
C8_OutputLastsProbedDuration ==
    StitchDone =>
        /\ Cardinality(VideoProbes) = 1
        /\ AudioStreamsTrimmedTo(video_duration)
        /\ mix.out_duration = video_duration

\* C8 amended: the mixdown probes the video once and trims the music and the
\* voiceover to [0, D], D the value the probe returned (the default 15.0 s
\* when the probe failed); the output lasts as long as the video itself, which
\* is D whenever the probe succeeded.
C8_OutputLastsAsVideo ==
    StitchDone =>
        /\ Cardinality(VideoProbes) = 1
        /\ probes[1].kind = "video"
        /\ AudioStreamsTrimmedTo(video_duration)
        /\ \A k \in 2..Len(mix.streams) :
               FilteredLen(mix.streams[k], mix.native[k]) <= video_duration
        /\ mix.out_duration = true_video_duration
        /\ probes[1].ok => video_duration = true_video_duration
        /\ ~probes[1].ok => video_duration = DefaultVideoDuration

\* music longer than the probed default, shorter video, probe failed
C8_Witness ==
    /\ StitchDone
    /\ mix.case = "both"
    /\ ~probes[1].ok
    /\ mix.native[2] > video_duration
    /\ true_video_duration < video_duration

C10_ProbeNeverRaises ==
    (caller \in {"audio", "video"} /\ pc = "done") =>
        /\ raised = "none"
        /\ probe_ret.raised = "none"
        /\ ~probes[1].ok =>
               probe_ret.value = (IF caller = "audio" THEN DefaultAudioDuration
                                  ELSE DefaultVideoDuration)

\* the class of the exception that ended the call (caught and reported by the
\* orchestrator, or let out of a direct call)
RaisedClass ==
    IF raised # "none" THEN raised
    ELSE IF Len(returned) = 1 /\ returned[1].status = "error" /\ Len(returned[1].detail) = 2
    THEN returned[1].detail[2]
    ELSE "none"

\* a fold step / the mixdown command of this call failed
FoldFailedAt(k) == k \in 1..Len(steps) /\ ~steps[k].ok

MixFailed ==
    /\ "mixdown" \in faults
    /\ Len(events) > 0
    /\ events[Len(events)] = "mix"

\* the tool failure came out as the wrapper's error: a RuntimeError whose
\* message is the operation's error_msg followed by the tool's diagnostic
WrappedToolError(error_msg) ==
    /\ RaisedClass = "RuntimeError"
    /\ \E stderr \in StderrChoices :
         raised_text = error_msg \o <<": ">> \o ErrorDetail(stderr)

\* the call stopped where the tool failed and handed no path to its caller
AbortedWithoutPath ==
    /\ pc = "done"
    /\ retval = NoPath
    /\ concatenated_video = NoPath \/ ~FoldFailedAt(Len(steps))
    /\ final_video_path = NoPath
    /\ \A r \in 1..Len(returned) : returned[r].status = "error"

\* C11: a failure of the external tool in fold step k or in the mixdown aborts
\* the call at that step (no later fold step, no path returned) and the error
\* carries the step's error message with the tool's diagnostic text, however
\* the tool invocation failed.
C11_ToolFailureAborts ==
    /\ \A k \in 1..Len(steps) :
         FoldFailedAt(k) =>
            /\ k = Len(steps)
            /\ AbortedWithoutPath
            /\ WrappedToolError(TransitionErrorMsg(k))
    /\ MixFailed =>
            /\ AbortedWithoutPath
            /\ WrappedToolError(StitchErrorMsg)

\* the part of C11 that the code keeps: the abort, whatever the failure
C11_AbortOnly ==
    /\ \A k \in 1..Len(steps) : FoldFailedAt(k) => k = Len(steps) /\ AbortedWithoutPath
    /\ MixFailed => AbortedWithoutPath

\* the parser has returned
Parsed == caller = "parser" /\ pc = "done"

\* the directive is put together from phrases that match no rule (or from none)
MatchesNoRule(ps) == \A i \in 1..Len(ps) : Phrases[ps[i]].kind = "none"

ClearVoiceSoftMusic ==
    <<"c", "l", "e", "a", "r", " ", "v", "o", "i", "c", "e", ",", " ", "s", "o", "f", "t", " ", "m", "u", "s", "i", "c">>

MusicAt25Percent == <<"m", "u", "s", "i", "c", " ", "a", "t", " ", "2", "5", "%">>

\* C12: the empty directive and every directive that matches no rule yield
\* exactly the defaults (video 0.3, music 0.4, voiceover 1.0); "clear voice,
\* soft music" yields voiceover 1.2, music 0.2, video 0.3; "music at 25%"
\* yields music 0.25 and the defaults for the other two.
C12_DefaultsAndExamples ==
    Parsed =>
      /\ MatchesNoRule(p_phrases) =>
            volumes = [video |-> 300, music |-> 400, voiceover |-> 1000]
      /\ Directive(p_phrases) = ClearVoiceSoftMusic =>
            volumes = [video |-> 300, music |-> 200, voiceover |-> 1200]
      /\ Directive(p_phrases) = MusicAt25Percent =>
            volumes = [video |-> 300, music |-> 250, voiceover |-> 1000]

C12_Witness ==
    /\ Parsed
    /\ Directive(p_phrases) = ClearVoiceSoftMusic
    /\ volumes.voiceover = 1200
    /\ volumes.music = 200

\* the first phrase of the directive that names the channel (0: none does)
FirstMention(ps, c) ==
    LET named == {i \in 1..Len(ps) : Phrases[ps[i]].channel = c}
    IN IF named = {} THEN 0 ELSE CHOOSE i \in named : \A j \in named : i <= j

\* the numbers of the given kind that stand after the channel's name
NumbersAfter(ps, c, kind) ==
    {j \in 1..Len(ps) :
        /\ FirstMention(ps, c) # 0
        /\ j >= FirstMention(ps, c)
        /\ Phrases[ps[j]].kind = kind}

FirstOf(S) == CHOOSE i \in S : \A j \in S : i <= j

\* the default gain of a channel, as the documentation of the parser has it
DefaultGain(c) ==
    CASE c = "video" -> 300 [] c = "music" -> 400 [] c = "voiceover" -> 1000

\* what the keyword phrases of the channel ask for: the gain of the one whose
\* category comes first in the priority order, the default without any
KeywordExpected(ps, c) ==
    LET kws == {i \in 1..Len(ps) :
                   Phrases[ps[i]].channel = c /\ Phrases[ps[i]].kind = "kw"}
    IN IF kws = {} THEN DefaultGain(c)
       ELSE Phrases[ps[CHOOSE i \in kws :
                \A j \in kws : Phrases[ps[i]].rank <= Phrases[ps[j]].rank]].gain

\* C13: per channel, a decimal value that matches (it follows the channel's
\* name) is the gain, literally; otherwise a percentage N that matches gives
\* N/100; otherwise the gain is what the keywords or the defaults gave.
C13_DecimalOverPercentOverKeyword ==
    Parsed =>
      \A c \in Channels :
        LET decs == NumbersAfter(p_phrases, c, "dec")
            pcts == NumbersAfter(p_phrases, c, "pct")
        IN volumes[c] =
             IF decs # {} THEN Phrases[p_phrases[FirstOf(decs)]].gain
             ELSE IF pcts # {} THEN Phrases[p_phrases[FirstOf(pcts)]].gain
             ELSE KeywordExpected(p_phrases, c)

\* a directive with a percentage and a decimal for the music, in either order
C13_Witness ==
    /\ Parsed
    /\ \E i, j \in 1..Len(p_phrases) :
         /\ Phrases[p_phrases[i]].channel = "music"
         /\ Phrases[p_phrases[i]].kind = "pct"
         /\ Phrases[p_phrases[j]].channel = "music"
         /\ Phrases[p_phrases[j]].kind = "dec"
         /\ volumes.music = Phrases[p_phrases[j]].gain
         /\ volumes.music # Phrases[p_phrases[i]].gain

\* C14: when the directive holds keyword phrases of several categories for one
\* channel (and no number after the channel's name), the gain is that of the
\* first category in the fixed priority order, wherever the phrases stand.
C14_FirstCategoryWins ==
    Parsed =>
      \A c \in Channels :
        (NumbersAfter(p_phrases, c, "dec") \cup NumbersAfter(p_phrases, c, "pct") = {})
          => volumes[c] = KeywordExpected(p_phrases, c)

\* the lower-priority phrase stands first in the directive and still loses
C14_Witness ==
    /\ Parsed
    /\ Len(p_phrases) = 2
    /\ \E c \in Channels :
         /\ Phrases[p_phrases[1]].channel = c
         /\ Phrases[p_phrases[2]].channel = c
         /\ Phrases[p_phrases[1]].kind = "kw"
         /\ Phrases[p_phrases[2]].kind = "kw"
         /\ Phrases[p_phrases[1]].rank > Phrases[p_phrases[2]].rank
         /\ volumes[c] = Phrases[p_phrases[2]].gain
         /\ volumes[c] # Phrases[p_phrases[1]].gain

\* a direct call of one of the store helpers has ended
StoreCallDone == caller \in {"download", "upload"} /\ pc = "done"

\* C15: download_to_temp and upload_to_gcs reject a remote location without the
\* gs:// scheme, with an empty bucket or with an empty object path before any
\* I/O (no storage client call, no local file created, nothing written to the
\* store); upload_to_gcs, when it succeeds, returns the destination unchanged.
C15_RejectBeforeIO ==
    /\ (StoreCallDone /\ store_uri \in MalformedUris) =>
          /\ raised = "ValueError"
          /\ retval = NoPath
          /\ events = <<>>
          /\ created = {}
          /\ disk = InitialDisk
          /\ uploads = <<>>
    /\ (StoreCallDone /\ caller = "upload" /\ raised = "none") =>
          /\ retval = store_uri
          /\ uploads = <<[src |-> store_local, dest |-> store_uri]>>

\* a gs:// location with an empty object path was given to each helper
C15_Witness ==
    /\ StoreCallDone
    /\ store_uri \in {GsNoBlob, GsEmptyBlob}
    /\ raised = "ValueError"
    /\ events = <<>>

\* C16: in any interleaving of concurrent runs the temp files of the runs are
\* disjoint: no run writes, overwrites or deletes a temp file that another run
\* wrote or holds the name of for a write to come.
C16_TempFilesDisjoint ==
    /\ conflicts = {}
    /\ \A r, q \in Runs :
         (r # q /\ runs[r].pending # NoPath) => runs[r].pending # runs[q].pending

\* the part of C16 that the code keeps: the downloaded files, which mkstemp
\* creates as it names them, are never another run's
C16_DownloadsDisjoint ==
    \A c \in conflicts : c.name \notin TempCandidates(<<>>)

\* the writes of run r to the store
DestsBy(r) == {k \in 1..Len(dests) : dests[k].by = r}

\* C17: a run writes to the store once (when it gets to the upload, and not
\* before), under a newly generated name: no two writes, of the same run or of
\* two runs, also with identical inputs, go to the same destination object.
C17_OneFreshDestPerRun ==
    /\ \A i, j \in 1..Len(dests) : i # j => dests[i].dest # dests[j].dest
    /\ \A r \in Runs :
         Cardinality(DestsBy(r)) = IF runs[r].pc \in {"cleanup", "done"} THEN 1 ELSE 0

\* two runs with identical inputs have both written
C17_Witness ==
    /\ \A r \in Runs : runs[r].pc = "done"
    /\ runs[1].n = runs[2].n
    /\ runs[1].remote = runs[2].remote
    /\ runs[1].audio = runs[2].audio
    /\ Len(dests) = 2

\* the mixdown built a command with a music stream
MusicMixed == mix.case \in {"both", "music"}

\* min(music_duration, video_duration), from what the two probes returned
EffectiveDuration ==
    Min(IF probes[Len(probes)].ok THEN mix.native[2] ELSE DefaultAudioDuration,
        video_duration)

\* the shortest absolute fade length the code names (2.0 s, the quick fade)
MinFadeLength == FadeRule(<<"q", "u", "i", "c", "k", " ", "f", "a", "d", "e">>).cap

\* C18: music whose effective duration min(music, D) is shorter than the
\* minimum fade length is emitted with trim and gain only, without a fade-out;
\* a fade-out is emitted only when the effective duration is strictly greater
\* than the computed fade duration.
C18_ShortMusicNoFade ==
    MusicMixed =>
      /\ EffectiveDuration < MinFadeLength => mix.streams[2].fade = <<>>
      /\ mix.streams[2].fade # <<>> => EffectiveDuration > mix.streams[2].fade[2]

\* the part of C18 that the code keeps: a fade-out only when the effective
\* duration is strictly greater than the fade duration
C18_FadeOnlyWhenLonger ==
    MusicMixed =>
      (mix.streams[2].fade # <<>> =>
          /\ EffectiveDuration > mix.streams[2].fade[2]
          /\ mix.streams[2].fade[1] = EffectiveDuration - mix.streams[2].fade[2])

\* generate_artisan_video has returned
GenerateDone == caller = "generate_video" /\ pc = "done" /\ Len(returned) = 1

\* C19: the polling of generate_artisan_video ends: the operation is fetched
\* at most MAX_WAIT_TIME / POLL_INTERVAL = 40 times, the loop can always take
\* its next step or leave, and a call whose operation is still not done when
\* the maximum wait is reached returns the status "timeout".
C19_PollingBounded ==
    /\ MAX_WAIT_TIME \div POLL_INTERVAL = 40
    /\ polls <= MAX_WAIT_TIME \div POLL_INTERVAL
    /\ wait_time = polls * POLL_INTERVAL
    /\ pc = "poll" => (ENABLED PollOperation \/ ENABLED PollResult)
    /\ (GenerateDone /\ ~operation.done /\ wait_time >= MAX_WAIT_TIME
           /\ returned[1].status # "error")
          => returned[1].status = "timeout"
    /\ (GenerateDone /\ ~operation.done) => returned[1].status \in {"timeout", "error"}

\* forty fetches, the operation never done, the call returned "timeout"
C19_Witness ==
    /\ GenerateDone
    /\ polls = 40
    /\ ~operation.done
    /\ returned[1].status = "timeout"

\* POST /generate has sent its response
ApiDone == caller = "generate_content" /\ pc = "done"

\* what the request is, from the table its fields were drawn from
FieldOf(table, text) == table[CHOOSE k \in 1..Len(table) : table[k].text = text]

RequestDefect ==
    LET u == FieldOf(UserIds, request.user_id)
        d == FieldOf(Descriptions, request.product_description)
        g == FieldOf(ImageUris, request.gcs_image_uri)
    IN IF ~u.usable THEN "user_id"
       ELSE IF ~d.usable THEN "description"
       ELSE IF ~g.scheme THEN "scheme"
       ELSE IF ~g.image THEN "extension"
       ELSE "none"

\* C20: POST /generate answers 400 to a request with an empty user_id, an
\* empty or whitespace-only product_description, a gcs_image_uri without the
\* gs:// scheme or without an image extension, the first of these defects in
\* this order deciding the detail; 503 is sent exactly for a valid request
\* while the agent is unavailable, and the agent is not queried for an invalid
\* request.
C20_ValidationBeforeAvailability ==
    ApiDone =>
      /\ RequestDefect = "user_id" =>
            response = HttpError(400, "User ID is required for content generation")
      /\ RequestDefect = "description" =>
            response = HttpError(400, "Product description is required and cannot be empty")
      /\ RequestDefect = "scheme" =>
            /\ response.status_code = 400
            /\ response.detail \in {"GCS image URI is required for content generation",
                                    "GCS image URI must start with 'gs://' (example: gs://bucket-name/image.jpg)"}
      /\ RequestDefect = "extension" =>
            response = HttpError(400, "GCS URI should point to an image file (.jpg, .jpeg, .png, .gif, .bmp, .webp)")
      /\ RequestDefect = "none" => response.status_code # 400
      /\ response.status_code = 503 <=> (RequestDefect = "none" /\ ~app_wrapper)
      /\ RequestDefect # "none" => agent_queries = 0

\* an invalid request with several defects while the agent is unavailable
C20_Witness ==
    /\ ApiDone
    /\ ~app_wrapper
    /\ RequestDefect = "description"
    /\ ~FieldOf(ImageUris, request.gcs_image_uri).scheme
    /\ response.status_code = 400

\* the agent was queried and POST /generate has sent its response
AgentAnswered == ApiDone /\ agent_queries = 1

\* C21: when the processing of the agent's stream has exceeded the timeout
\* and the stream then delivers a late event or ends without a further
\* event, the response is 408 "timed out".
C21_TimeoutAlways408 ==
    (AgentAnswered /\ DeadlinePassed(stream_clock) /\ stream_last \in {"event", "end"})
       => response = AgentResponse("timeout")

\* the part of C21 that holds: a late event gets 408, and an error of the
\* agent gets 500
C21_LateEventAndError ==
    AgentAnswered =>
      /\ (DeadlinePassed(stream_clock) /\ stream_last = "event")
            => response = AgentResponse("timeout")
      /\ (stream_last \in {"none", "raise"}) => response.status_code = 500
      /\ response.status_code = 408 => DeadlinePassed(stream_clock)

\* the orchestrator has called the compositor / the mixdown
CompositorInvoked == video_paths # <<>>

MixdownInvoked == s_video # NoPath

\* the run has gone through the test of step 1 / of step 2
ComposeDecided ==
    /\ caller = "pipeline"
    /\ \/ PcRank(pc) \in 3..5
       \/ pc \in {"concat_entry", "concat_loop"}
       \/ /\ PipelineDone
          /\ \/ returned[1].status = "success"
             \/ faults \cap {"compose", "probe", "mixdown", "upload"} # {}

MixdownDecided ==
    /\ caller = "pipeline"
    /\ \/ PcRank(pc) \in 4..5
       \/ pc \in {"stitch_entry", "stitch_build", "stitch_run"}
       \/ /\ PipelineDone
          /\ \/ returned[1].status = "success"
             \/ faults \cap {"probe", "mixdown", "upload"} # {}

\* C22: the orchestrator calls the compositor exactly when more than one
\* video was supplied, a single resolved video going on unchanged, and calls
\* the mixdown exactly when a narration or a music track was supplied and
\* resolved, the composed video being uploaded as it is otherwise.
C22_ComposeAndMixdownGuards ==
    caller = "pipeline" =>
      /\ CompositorInvoked => Len(video_uris) > 1
      /\ ComposeDecided => (CompositorInvoked <=> Len(video_uris) > 1)
      /\ (ComposeDecided /\ Len(video_uris) = 1) =>
            /\ concatenated_video = local_videos[1]
            /\ ~Happened("fold")
      /\ MixdownInvoked => (narration_path # NoPath \/ music_path # NoPath)
      /\ MixdownDecided =>
            (MixdownInvoked <=> (narration_path # NoPath \/ music_path # NoPath))
      /\ (MixdownDecided /\ ~MixdownInvoked) =>
            /\ final_video_path = concatenated_video
            /\ ~Happened("probe") /\ ~Happened("mix")
            /\ \A k \in 1..Len(uploads) : uploads[k].src = concatenated_video

\* a successful run with one video and a music track: no compositor, a mixdown
C22_Witness ==
    /\ PipelineDone
    /\ returned[1].status = "success"
    /\ Len(video_uris) = 1
    /\ narration_path = NoPath /\ music_path # NoPath
    /\ ~CompositorInvoked
    /\ MixdownInvoked
    /\ uploads[1].src = output_path

\* the inputs the caller supplied, in the order they are resolved
SuppliedInputs ==
    video_uris
      \o (IF narration_path # NoPath THEN <<narration_path>> ELSE <<>>)
      \o (IF music_path # NoPath THEN <<music_path>> ELSE <<>>)

RemoteInputs == {k \in 1..Len(SuppliedInputs) : StartsWith(SuppliedInputs[k], GsScheme)}

\* the local inputs that name no file
MissingLocal ==
    {SuppliedInputs[k] : k \in {j \in 1..Len(SuppliedInputs) :
         j \notin RemoteInputs /\ SuppliedInputs[j] \notin disk}}

Count(e) == Cardinality({k \in 1..Len(events) : events[k] = e})

\* RESOLVE_INPUTS is over and the run went on
ResolvePassed ==
    /\ caller = "pipeline"
    /\ \/ PcRank(pc) \in 2..5
       \/ /\ PipelineDone
          /\ \/ returned[1].status = "success"
             \/ faults \cap {"compose", "probe", "mixdown", "upload"} # {}

\* C23: a run that gets through RESOLVE_INPUTS has downloaded every remote
\* input and checked every input to exist; a local input that does not exist
\* ends the run with a non-success result that names it; after a failure in
\* RESOLVE_INPUTS no compose step, mixdown or upload is performed; an empty
\* video list ends the run with status "error" before any operation.
C23_ResolveInputs ==
    caller = "pipeline" =>
      /\ ResolvePassed =>
            /\ Count("download") = Cardinality(RemoteInputs)
            /\ Count("exists") = Len(SuppliedInputs)
            /\ MissingLocal = {}
      /\ (PipelineDone /\ MissingLocal # {} /\ "download" \notin faults /\ video_uris # <<>>) =>
            /\ "exists" \in faults
            /\ returned[1].status # "success"
            /\ \E u \in MissingLocal : Contains(returned[1].detail, u)
      /\ (PipelineDone /\ faults \cap {"download", "exists"} # {}) =>
            /\ returned[1].status # "success"
            /\ ~Happened("fold") /\ ~Happened("probe") /\ ~Happened("mix")
            /\ ~Happened("upload")
            /\ ~CompositorInvoked /\ ~MixdownInvoked
            /\ uploads = <<>>
      /\ video_uris = <<>> =>
            /\ PipelineDone
            /\ returned[1] = ErrorResult(<<"No video URIs provided">>)
            /\ events = <<>>

\* a remote video was downloaded, then the local narration was found missing
C23_Witness ==
    /\ PipelineDone
    /\ video_uris = <<GsVideo>>
    /\ narration_path = LocalMissing
    /\ events = <<"download", "exists", "exists">>
    /\ returned[1] = ErrorResult(<<"Narration file not found">> \o LocalMissing)

\* fade_start and fade_duration as stitch_video_with_audio computed them
FadeWindow == mix.streams[2].window

\* C24: whenever music is mixed, the fade window computed from the music
\* duration and the video duration D has fade duration >= 0, fade start >= 0,
\* fade duration <= effective duration and fade start + fade duration =
\* effective duration, with effective duration = min(music duration, D); the
\* fade-out put into the filter is this window and is not longer than the clip.
C24_FadeWindowInsideClip ==
    MusicMixed =>
      /\ FadeWindow[2] >= 0
      /\ FadeWindow[1] >= 0
      /\ FadeWindow[2] <= EffectiveDuration
      /\ FadeWindow[1] + FadeWindow[2] = EffectiveDuration
      /\ mix.streams[2].fade # <<>> =>
            /\ mix.streams[2].fade = FadeWindow
            /\ mix.streams[2].fade[2] <= FilteredLen(mix.streams[2], EffectiveDuration)

\* music longer than the video, the fade held to the cap of 5.0 s: the last
\* five seconds of the twenty the video lasts
C24_Witness ==
    /\ MusicMixed
    /\ video_duration = 2000
    /\ EffectiveDuration = 2000
    /\ mix.streams[2].fade = <<1500, 500>>

\* the music duration the probe returned to the mixdown
ProbedMusicDuration ==
    IF probes[Len(probes)].ok THEN mix.native[2] ELSE DefaultAudioDuration

\* the fade window the keywords of the directive select for this music and
\* this video, as the video + music + voiceover case computes it
KeywordFadeWindow ==
    MusicFilter(video_duration, ProbedMusicDuration, FadeRule(s_prompt)).window

\* C25: the fade ratio is selected from the fade keywords of the directive
\* by the same rule in every case with music: for the same directive, music
\* duration and video duration, the fade window of the music-only case is the
\* one of the music + voiceover case.
C25_SameFadeInEveryCase ==
    MusicMixed => FadeWindow = KeywordFadeWindow

\* the part of C25 that holds: with a voiceover the keywords select the
\* window, and without a fade keyword the two cases agree
C25_KeywordsWithVoiceover ==
    MusicMixed =>
      /\ mix.case = "both" => FadeWindow = KeywordFadeWindow
      /\ ~Contains(Lower(s_prompt), <<"f", "a", "d", "e">>) => FadeWindow = KeywordFadeWindow

\* the numbers of the given kind that the directive attaches to the channel
OwnNumbers(ps, c, kind) ==
    {j \in 1..Len(ps) : Phrases[ps[j]].channel = c /\ Phrases[ps[j]].kind = kind}

\* the gain the channel's own phrases ask for: its decimal, else its
\* percentage, else its keywords or the default
OwnGain(ps, c) ==
    IF OwnNumbers(ps, c, "dec") # {}
    THEN Phrases[ps[FirstOf(OwnNumbers(ps, c, "dec"))]].gain
    ELSE IF OwnNumbers(ps, c, "pct") # {}
    THEN Phrases[ps[FirstOf(OwnNumbers(ps, c, "pct"))]].gain
    ELSE KeywordExpected(ps, c)

SoftMusicVoiceAt80 ==
    <<"s", "o", "f", "t", " ", "m", "u", "s", "i", "c", ",", " ", "v", "o", "i", "c", "e", " ", "a", "t", " ", "8", "0", "%">>

\* C26: every channel is matched on its own: a percentage or a decimal that
\* the directive attaches to one channel sets the gain of that channel only,
\* and every other channel, named before or after it, has the gain of its
\* own keywords or its default; "soft music, voice at 80%" yields music 0.2
\* and voiceover 0.8.
C26_ChannelsIndependent ==
    Parsed =>
      /\ \A c \in Channels : volumes[c] = OwnGain(p_phrases, c)
      /\ Directive(p_phrases) = SoftMusicVoiceAt80 =>
            (volumes.music = 200 /\ volumes.voiceover = 800)

\* the part of C26 that holds: a channel after whose name no number of
\* another channel stands has the gain its own phrases ask for
C26_IndependentOfEarlierNumbers ==
    Parsed =>
      \A c \in Channels :
        (\A kind \in {"dec", "pct"} :
            NumbersAfter(p_phrases, c, kind) \subseteq OwnNumbers(p_phrases, c, kind))
          => volumes[c] = OwnGain(p_phrases, c)

\* C27: a deletion that fails during CLEANUP is not raised, the deletion of
\* every other temporary file is still attempted, and the run returns status
\* "success" with the uploaded location.
C27_CleanupKeepsOutcome ==
    (caller = "pipeline" /\ "cleanup" \in faults) =>
      /\ raised = "none"
      /\ pc \in {"cleanup", "done"}
      /\ PipelineDone =>
            /\ returned[1].status = "success"
            /\ returned[1].video_uri = uploads[Len(uploads)].dest
            /\ returned[1].video_path = uploads[Len(uploads)].src
            /\ Count("remove") = Len(temp_files)
            /\ Cardinality(removed) = Len(temp_files) - remove_failures

\* the deletion of the first of three temporary files failed, the other two
\* were deleted, the run returned success
C27_Witness ==
    /\ PipelineDone
    /\ "cleanup" \in faults
    /\ Len(temp_files) = 3
    /\ temp_files[1] \in disk
    /\ temp_files[2] \in removed /\ temp_files[3] \in removed
    /\ returned[1].status = "success"

\* the local files the caller supplied as inputs
CallerFiles ==
    {SuppliedInputs[k] : k \in {j \in 1..Len(SuppliedInputs) : j \notin RemoteInputs}}
        \cap InitialDisk

\* C28: the orchestrator deletes only files the run created: every local file
\* the caller supplied as a video, narration or music input exists at every
\* moment of the run and when it returns, and the compositor and the mixdown
\* delete no file; files are deleted in the cleanup of the orchestrator only.
C28_OnlyOwnFilesDeleted ==
    /\ removed \subseteq created
    /\ InitialDisk \subseteq disk
    /\ caller = "pipeline" =>
          /\ CallerFiles \subseteq disk
          /\ CallerFiles \cap removed = {}
          /\ removed # {} => (pc \in {"cleanup", "done"} /\ Happened("upload"))
    /\ caller \in {"concat", "stitch"} => (removed = {} /\ ~Happened("remove"))

\* a run on the caller's video and narration has deleted its mixdown output
\* and returned; the two files of the caller are still there
C28_Witness ==
    /\ PipelineDone
    /\ returned[1].status = "success"
    /\ video_uris = <<LocalA>>
    /\ narration_path = LocalNarr
    /\ removed = {output_path}
    /\ {LocalA, LocalNarr} \subseteq disk

\* generate_artisan_video has returned from after the polling loop
PollingReturned == GenerateDone /\ returned[1].status # "error"

\* C29: generate_artisan_video returns "timeout" only when the operation was
\* still not done as the polling stopped: an operation that is done with a
\* generated video when the loop is left, also on the last allowed poll at
\* wait time = MAX_WAIT_TIME, gives "success", and one that is done without
\* a video gives "failed".
C29_TimeoutOnlyIfNotDone ==
    PollingReturned =>
      /\ returned[1].status = "timeout" => ~operation.done
      /\ (operation.done /\ operation.generated_videos) => returned[1].status = "success"
      /\ (operation.done /\ ~operation.generated_videos) => returned[1].status = "failed"

\* the part of C29 that holds: an operation found done before the maximum
\* wait is reached gives "success" with a video and "failed" without
C29_DoneBeforeLastPoll ==
    (PollingReturned /\ wait_time < MAX_WAIT_TIME) =>
      /\ operation.done
      /\ returned[1].status = (IF operation.generated_videos THEN "success" ELSE "failed")

PipelineSucceeded == PipelineDone /\ returned[1].status = "success"

\* the run was given one local video and no audio track
PlainLocalRun ==
    /\ Len(video_uris) = 1
    /\ ~StartsWith(video_uris[1], GsScheme)
    /\ narration_path = NoPath
    /\ music_path = NoPath

\* the temporary files of the run that are still on disk
TempsLeft == {temp_files[k] : k \in 1..Len(temp_files)} \cap disk

\* C30 as stated: after a successful run the file named by video_path exists
\* only when the run was given one local video and no audio track; in every
\* other successful run it has been deleted by the cleanup.
C30_PathGoneUnlessPlainLocal ==
    PipelineSucceeded =>
      /\ PlainLocalRun <=> (~CompositorInvoked /\ ~MixdownInvoked
                              /\ ~StartsWith(video_uris[1], GsScheme))
      /\ returned[1].video_path \in disk <=> PlainLocalRun

\* C30, amended: after a successful run given one local video and no audio
\* track video_path is the caller's file, which exists; in every other
\* successful run video_path names a temporary file of the run, which the
\* cleanup has deleted unless the deletion of that very file failed.
C30_PathGoneUnlessRemoveFailed ==
    PipelineSucceeded =>
      /\ returned[1].video_path = uploads[Len(uploads)].src
      /\ PlainLocalRun =>
            /\ returned[1].video_path = video_uris[1]
            /\ returned[1].video_path \in disk
            /\ temp_files = <<>>
      /\ ~PlainLocalRun =>
            /\ temp_files # <<>>
            /\ returned[1].video_path = temp_files[Len(temp_files)]
            /\ returned[1].video_path \in created
            /\ returned[1].video_path \in disk <=> returned[1].video_path \notin removed
            /\ Cardinality(TempsLeft) = remove_failures
            /\ remove_failures = 0 => returned[1].video_path \notin disk

\* a successful run on a downloaded video: the file video_path names is gone
C30_Witness ==
    /\ PipelineSucceeded
    /\ video_uris = <<GsVideo>>
    /\ ~CompositorInvoked /\ ~MixdownInvoked
    /\ returned[1].video_path \in removed
    /\ returned[1].video_path \notin disk
    /\ returned[1].video_uri # NoPath

====
